---- MODULE Spec2Model ----
(***************************************************************************)
(* VisionMapper (src/symtrain-image/vision_mapper.py): the hotspot         *)
(* normalizer, the keyword extractor, the relevance scorer, the greedy     *)
(* step-to-image assignment and the annotation pipeline.                   *)
(*                                                                         *)
(* Python values are modelled as follows.                                  *)
(*   str    a string; chars(s) is its sequence of characters, on which     *)
(*          substring tests, split(), strip(), lower() and SequenceMatcher *)
(*          act as they do in the code, and str(cs) is the string of a     *)
(*          sequence of characters;                                        *)
(*   dict   a function whose DOMAIN is the set of keys that are present;   *)
(*   None   the value None below; an optional value v is Some(v);          *)
(*   float  a fixed-point integer: scores, thresholds and penalties in     *)
(*          thousandths (ScoreScale), fractional coordinates in            *)
(*          thousandths of the image size (FracScale). Sums and products   *)
(*          are exact, where the code's doubles round.                     *)
(***************************************************************************)
EXTENDS Integers, Sequences, FiniteSets, TLC

VARIABLES
  call,         \* the call being modelled: its name and its arguments
  pc,           \* position in the call
  used_images,  \* map_steps_to_images: file_id -> times chosen so far
  mappings,     \* map_steps_to_images: the Mappings appended so far
  result,       \* process_simulation_with_vision: the Report built so far
  fs,           \* the file system: directory and fileId -> existing suffixes
  probed,       \* the paths whose existence the last resolution tested, in order
  ret           \* the value a pure function returned

vars == <<call, pc, used_images, mappings, result, fs, probed, ret>>

----------------------------------------------------------------------------
(* Python built-ins on str, on characters.                                 *)

\* the str values of the model, each with its characters
Text ==
  {
    <<"Click the Submit button",
      <<"C","l","i","c","k"," ","t","h","e"," ","S","u","b","m","i","t"," ","b","u","t","t","o","n">>>>,
    <<"Enter your new credit card number",
      <<"E","n","t","e","r"," ","y","o","u","r"," ","n","e","w"," ","c","r","e","d","i","t"," ","c","a","r","d"," ","n","u","m","b","e","r">>>>,
    <<"Click the Payment Method button",
      <<"C","l","i","c","k"," ","t","h","e"," ","P","a","y","m","e","n","t"," ","M","e","t","h","o","d"," ","b","u","t","t","o","n">>>>,
    <<"Open 'Order History' in the Menu",
      <<"O","p","e","n"," ","'","O","r","d","e","r"," ","H","i","s","t","o","r","y","'"," ","i","n"," ","t","h","e"," ","M","e","n","u">>>>,
    <<"",
      <<>>>>,
    <<"update my payment method",
      <<"u","p","d","a","t","e"," ","m","y"," ","p","a","y","m","e","n","t"," ","m","e","t","h","o","d">>>>,
    <<"check payments",
      <<"c","h","e","c","k"," ","p","a","y","m","e","n","t","s">>>>,
    <<"Submit",
      <<"S","u","b","m","i","t">>>>,
    <<"button",
      <<"b","u","t","t","o","n">>>>,
    <<"Card Number Field",
      <<"C","a","r","d"," ","N","u","m","b","e","r"," ","F","i","e","l","d">>>>,
    <<"text_field",
      <<"t","e","x","t","_","f","i","e","l","d">>>>,
    <<"Payment Method",
      <<"P","a","y","m","e","n","t"," ","M","e","t","h","o","d">>>>,
    <<"BUTTON",
      <<"B","U","T","T","O","N">>>>,
    <<"Orders History",
      <<"O","r","d","e","r","s"," ","H","i","s","t","o","r","y">>>>,
    <<"menu",
      <<"m","e","n","u">>>>,
    <<"Payment",
      <<"P","a","y","m","e","n","t">>>>,
    <<"AUDIO",
      <<"A","U","D","I","O">>>>,
    <<"audio",
      <<"a","u","d","i","o">>>>,
    <<"Audio",
      <<"A","u","d","i","o">>>>,
    <<"Next",
      <<"N","e","x","t">>>>,
    <<"Save",
      <<"S","a","v","e">>>>,
    <<"Old",
      <<"O","l","d">>>>,
    <<"Text_Field",
      <<"T","e","x","t","_","F","i","e","l","d">>>>,
    <<"toggle",
      <<"t","o","g","g","l","e">>>>,
    <<"Button",
      <<"B","u","t","t","o","n">>>>,
    <<"input_field",
      <<"i","n","p","u","t","_","f","i","e","l","d">>>>,
    <<"highlight",
      <<"h","i","g","h","l","i","g","h","t">>>>
  }

\* the characters of the str s
chars(s) == (CHOOSE p \in Text : p[1] = s)[2]

\* the str of a sequence of characters
str(cs) == (CHOOSE p \in Text : p[2] = cs)[1]

None == <<>>

Some(v) == <<v>>

\* a score of 1.0 is ScoreScale thousandths
ScoreScale == 1000

\* a fractional coordinate 1.0 is FracScale thousandths
FracScale == 1000

Letters ==
  [lower |-> <<"a","b","c","d","e","f","g","h","i","j","k","l","m",
               "n","o","p","q","r","s","t","u","v","w","x","y","z">>,
   upper |-> <<"A","B","C","D","E","F","G","H","I","J","K","L","M",
               "N","O","P","Q","R","S","T","U","V","W","X","Y","Z">>]

Digits == {"0","1","2","3","4","5","6","7","8","9"}

isupper(c) == \E i \in 1..26 : Letters.upper[i] = c

islower(c) == \E i \in 1..26 : Letters.lower[i] = c

lower_char(c) ==
  IF isupper(c) THEN Letters.lower[CHOOSE i \in 1..26 : Letters.upper[i] = c] ELSE c

upper_char(c) ==
  IF islower(c) THEN Letters.upper[CHOOSE i \in 1..26 : Letters.lower[i] = c] ELSE c

\* str.lower()
lower(s) == [i \in 1..Len(s) |-> lower_char(s[i])]

\* str.upper()
upper(s) == [i \in 1..Len(s) |-> upper_char(s[i])]

\* p in s, for two str
contains(s, p) ==
  \E i \in 0..(Len(s) - Len(p)) : \A k \in 1..Len(p) : s[i + k] = p[k]

\* str.strip(): the only whitespace of the model's alphabet is the blank
strip(s) ==
  LET keep == {i \in 1..Len(s) : s[i] # " "}
  IN  IF keep = {} THEN <<>>
      ELSE SubSeq(s, CHOOSE i \in keep : \A j \in keep : i <= j,
                     CHOOSE i \in keep : \A j \in keep : i >= j)

RECURSIVE split_from(_, _, _)
split_from(s, i, word) ==
  LET done == IF word = <<>> THEN <<>> ELSE <<word>>
  IN  IF i > Len(s) THEN done
      ELSE IF s[i] = " " THEN done \o split_from(s, i + 1, <<>>)
      ELSE split_from(s, i + 1, Append(word, s[i]))

\* str.split(): the words between runs of whitespace
split(s) == split_from(s, 1, <<>>)

\* set(list)
ToSet(seq) == {seq[i] : i \in 1..Len(seq)}

\* dict.get(key, default)
get(d, key, default) == IF key \in DOMAIN d THEN d[key] ELSE default

----------------------------------------------------------------------------
(* VisionMapper.__init__: the keyword tables.                              *)

action_keywords ==
  <<
    [action_type |-> "click", variations |-> <<
        <<"c","l","i","c","k">>, <<"p","r","e","s","s">>, <<"t","a","p">>,
        <<"s","e","l","e","c","t">>, <<"c","h","o","o","s","e">>, <<"h","i","t">>,
        <<"p","u","s","h">> >>],
    [action_type |-> "enter", variations |-> <<
        <<"e","n","t","e","r">>, <<"t","y","p","e">>, <<"i","n","p","u","t">>,
        <<"f","i","l","l">>, <<"w","r","i","t","e">>, <<"p","r","o","v","i","d","e">>,
        <<"i","n","s","e","r","t">>, <<"a","d","d">> >>],
    [action_type |-> "navigate", variations |-> <<
        <<"n","a","v","i","g","a","t","e">>, <<"g","o"," ","t","o">>, <<"o","p","e","n">>,
        <<"a","c","c","e","s","s">>, <<"v","i","s","i","t">>, <<"m","o","v","e"," ","t","o">>,
        <<"s","w","i","t","c","h"," ","t","o">> >>],
    [action_type |-> "update", variations |-> <<
        <<"u","p","d","a","t","e">>, <<"c","h","a","n","g","e">>, <<"m","o","d","i","f","y">>,
        <<"e","d","i","t">>, <<"a","l","t","e","r">>, <<"r","e","v","i","s","e">>,
        <<"a","d","j","u","s","t">> >>],
    [action_type |-> "view", variations |-> <<
        <<"v","i","e","w">>, <<"s","e","e">>, <<"c","h","e","c","k">>,
        <<"l","o","o","k"," ","a","t">>, <<"r","e","v","i","e","w">>,
        <<"e","x","a","m","i","n","e">>, <<"i","n","s","p","e","c","t">> >>],
    [action_type |-> "submit", variations |-> <<
        <<"s","u","b","m","i","t">>, <<"s","a","v","e">>, <<"c","o","n","f","i","r","m">>,
        <<"a","p","p","l","y">>, <<"c","o","m","p","l","e","t","e">>, <<"f","i","n","i","s","h">> >>],
    [action_type |-> "search", variations |-> <<
        <<"s","e","a","r","c","h">>, <<"f","i","n","d">>, <<"l","o","o","k","u","p">>,
        <<"l","o","c","a","t","e">>, <<"s","e","e","k">> >>]
  >>

element_types ==
  <<
    <<"b","u","t","t","o","n">>, <<"l","i","n","k">>, <<"m","e","n","u">>,
    <<"d","r","o","p","d","o","w","n">>, <<"f","i","e","l","d">>, <<"i","n","p","u","t">>,
    <<"c","h","e","c","k","b","o","x">>, <<"r","a","d","i","o">>, <<"t","a","b">>,
    <<"i","c","o","n">>, <<"t","e","x","t">>, <<"f","o","r","m">>, <<"b","o","x">> >>

element_synonyms ==
  <<
    [category |-> "payment", synonyms |-> <<
        <<"p","a","y","m","e","n","t">>, <<"p","a","y">>, <<"b","i","l","l","i","n","g">>,
        <<"c","a","r","d">>, <<"c","r","e","d","i","t">>,
        <<"t","r","a","n","s","a","c","t","i","o","n">> >>],
    [category |-> "order", synonyms |-> <<
        <<"o","r","d","e","r">>, <<"p","u","r","c","h","a","s","e">>,
        <<"t","r","a","n","s","a","c","t","i","o","n">>, <<"b","o","o","k","i","n","g">>,
        <<"r","e","s","e","r","v","a","t","i","o","n">> >>],
    [category |-> "account", synonyms |-> <<
        <<"a","c","c","o","u","n","t">>, <<"p","r","o","f","i","l","e">>,
        <<"s","e","t","t","i","n","g","s">>, <<"p","r","e","f","e","r","e","n","c","e","s">> >>],
    [category |-> "address", synonyms |-> <<
        <<"a","d","d","r","e","s","s">>, <<"l","o","c","a","t","i","o","n">>,
        <<"s","h","i","p","p","i","n","g">>, <<"d","e","l","i","v","e","r","y">> >>],
    [category |-> "insurance", synonyms |-> <<
        <<"i","n","s","u","r","a","n","c","e">>, <<"p","o","l","i","c","y">>,
        <<"c","l","a","i","m">>, <<"c","o","v","e","r","a","g","e">> >>],
    [category |-> "contact", synonyms |-> <<
        <<"c","o","n","t","a","c","t">>, <<"p","h","o","n","e">>, <<"e","m","a","i","l">>,
        <<"c","a","l","l">>, <<"r","e","a","c","h">> >>]
  >>

generic_terms ==
  {
    <<"c","l","i","c","k">>, <<"b","u","t","t","o","n">>, <<"t","e","x","t">>,
    <<"f","i","e","l","d">>, <<"i","n","p","u","t">>, <<"n","e","x","t">>, <<"b","a","c","k">>,
    <<"s","u","b","m","i","t">>, <<"o","k">>, <<"y","e","s">>, <<"n","o">>,
    <<"c","o","n","t","i","n","u","e">>, <<"c","a","n","c","e","l">>, <<"c","l","o","s","e">>,
    <<"a","u","d","i","o">>, <<"f","o","r">>, <<"t","h","e">> }

stop_words ==
  {
    <<"t","h","e">>, <<"a">>, <<"a","n">>, <<"a","n","d">>, <<"o","r">>, <<"b","u","t">>,
    <<"i","n">>, <<"o","n">>, <<"a","t">>, <<"t","o">>, <<"f","o","r">>, <<"o","f">>,
    <<"w","i","t","h">>, <<"b","y">>, <<"f","r","o","m">>, <<"i","s">>, <<"a","r","e">>,
    <<"w","a","s">>, <<"w","e","r","e">>, <<"m","y">>, <<"y","o","u","r">>, <<"c","a","n">>,
    <<"y","o","u">>, <<"h","e","l","p">>, <<"m","e">>, <<"t","h","a","t">>, <<"t","h","i","s">> }

----------------------------------------------------------------------------
(* normalize_hotspot                                                       *)

\* the default of the image_size parameter: (width, height)
DefaultImageSize == <<1200, 800>>

\* type_mapping: alternate-schema type names to canonical names
type_mapping ==
  << [key |-> "button",     value |-> "button"],
     [key |-> "text_field", value |-> "input_field"],
     [key |-> "audio",      value |-> "audio"],
     [key |-> "highlight",  value |-> "highlight"] >>

\* type_mapping.get(hotspot_type, hotspot_type)
type_mapping_get(hotspot_type) ==
  IF \E i \in 1..Len(type_mapping) : type_mapping[i].key = hotspot_type
  THEN type_mapping[CHOOSE i \in 1..Len(type_mapping) :
                      type_mapping[i].key = hotspot_type].value
  ELSE hotspot_type

\* the product rounded down
to_pixels_floor(fraction, pixels) == (fraction * pixels) \div FracScale

\* int(fraction * pixels), fraction in thousandths: int() drops the
\* fractional part, also of a negative product
to_pixels(fraction, pixels) ==
  IF fraction * pixels >= 0
  THEN (fraction * pixels) \div FracScale
  ELSE -((-(fraction * pixels)) \div FracScale)

\* the value of settings when the key is missing: {}
empty_dict == [py_type |-> "dict", items |-> [k \in {} |-> 0]]

\* the branch of a settings value that is not a dict
default_coordinates == [x |-> 0, y |-> 0, width |-> 100, height |-> 40]

\* the fixed box, whatever the settings
fixed_box(settings, image_size) == default_coordinates

\* the coordinates normalize_hotspot computes from hotspot.get('settings', {})
settings_coordinates(settings, image_size) ==
  IF settings.py_type = "dict"
  THEN LET pos_x  == get(settings.items, "positionX", 0)
           pos_y  == get(settings.items, "positionY", 0)
           width  == get(settings.items, "width", 100)
           height == get(settings.items, "height", 50)
       IN  [x      |-> to_pixels(pos_x, image_size[1]),
            y      |-> to_pixels(pos_y, image_size[2]),
            width  |-> to_pixels(width, image_size[1]),
            height |-> to_pixels(height, image_size[2])]
  ELSE default_coordinates

\* the conversion with a label in place of a missing name
convert_labelled(hotspot, image_size) ==
  [text        |-> get(hotspot, "name", "Submit"),
   type        |-> type_mapping_get(str(lower(chars(get(hotspot, "type", ""))))),
   coordinates |-> settings_coordinates(get(hotspot, "settings", empty_dict),
                                        image_size)]

\* Convert SymTrain format: the record built from name, type and settings
convert_hotspot(hotspot, image_size) ==
  [text        |-> get(hotspot, "name", ""),
   type        |-> type_mapping_get(str(lower(chars(get(hotspot, "type", ""))))),
   coordinates |-> settings_coordinates(get(hotspot, "settings", empty_dict),
                                        image_size)]

\* the conversion without the test for the standard format
convert_always(hotspot, image_size) == convert_hotspot(hotspot, image_size)

normalize_hotspot(hotspot, image_size) ==
  IF "text" \in DOMAIN hotspot /\ "coordinates" \in DOMAIN hotspot
  THEN hotspot
  ELSE convert_hotspot(hotspot, image_size)

----------------------------------------------------------------------------
(* fuzzy_match_score: difflib.SequenceMatcher(None, a, b).ratio()          *)

\* F(v), with v evaluated once
With(v, F(_)) == CHOOSE r \in {F(x) : x \in {v}} : TRUE

\* the least and the greatest of a non-empty set of integers
Min(S) == CHOOSE n \in S : \A m \in S : n <= m

Max(S) == CHOOSE n \in S : \A m \in S : n >= m

\* the length of the common run of a and b that starts at a[i], b[j]
RECURSIVE common_run(_, _, _, _, _, _)
common_run(a, b, i, j, ahi, bhi) ==
  IF i <= ahi /\ j <= bhi /\ a[i] = b[j]
  THEN 1 + common_run(a, b, i + 1, j + 1, ahi, bhi)
  ELSE 0

\* SequenceMatcher.find_longest_match on a[alo..ahi], b[blo..bhi]: the longest
\* common block, of those the one starting earliest in a, of those the one
\* starting earliest in b
find_longest_match(a, b, alo, ahi, blo, bhi) ==
  With([p \in (alo..ahi) \X (blo..bhi) |-> common_run(a, b, p[1], p[2], ahi, bhi)],
       LAMBDA size :
         With(Max({size[p] : p \in DOMAIN size}),
              LAMBDA k :
                With(Min({p[1] : p \in {q \in DOMAIN size : size[q] = k}}),
                     LAMBDA i :
                       [i    |-> i,
                        j    |-> Min({p[2] : p \in {q \in DOMAIN size :
                                                      size[q] = k /\ q[1] = i}}),
                        size |-> k])))

\* the sum of the sizes of SequenceMatcher.get_matching_blocks
RECURSIVE matching_size(_, _, _, _, _, _)
matching_size(a, b, alo, ahi, blo, bhi) ==
  IF alo > ahi \/ blo > bhi THEN 0
  ELSE With(find_longest_match(a, b, alo, ahi, blo, bhi),
            LAMBDA m :
              IF m.size = 0 THEN 0
              ELSE m.size
                   + matching_size(a, b, alo, m.i - 1, blo, m.j - 1)
                   + matching_size(a, b, m.i + m.size, ahi, m.j + m.size, bhi))

\* ratio() of two lowercase str: 2.0 * matches / length as the fraction
\* num/den, 1.0 for two empty str
ratio(a, b) ==
  IF Len(a) + Len(b) = 0 THEN [num |-> 1, den |-> 1]
  ELSE [num |-> 2 * matching_size(a, b, 1, Len(a), 1, Len(b)),
        den |-> Len(a) + Len(b)]

fuzzy_match_score(str1, str2) ==
  With(lower(str1), LAMBDA a : With(lower(str2), LAMBDA b : ratio(a, b)))

\* ratio > percent / 100
ratio_above(r, percent) == r.num * 100 > percent * r.den

\* r1 <= r2
ratio_le(r1, r2) == r1.num * r2.den <= r2.num * r1.den

\* max(ratios), ratios not empty
ratio_max(ratios) == CHOOSE r \in ratios : \A q \in ratios : ratio_le(q, r)

\* ratio * weight, weight a score in thousandths
ratio_times(r, weight) == (r.num * weight) \div r.den

----------------------------------------------------------------------------
(* expand_keywords_with_synonyms, extract_keywords_from_step               *)

\* no keyword has synonyms
no_synonyms(keyword_lower) == {}

\* the synonyms of every category whose list contains the keyword
all_synonyms(keyword_lower) ==
  UNION {ToSet(element_synonyms[i].synonyms) :
           i \in {i \in 1..Len(element_synonyms) :
                    keyword_lower \in ToSet(element_synonyms[i].synonyms)}}

\* the synonyms of the first category whose list contains the keyword; the
\* loop over element_synonyms breaks at the first category that matches
first_synonyms(keyword_lower) ==
  With({i \in 1..Len(element_synonyms) :
          keyword_lower \in ToSet(element_synonyms[i].synonyms)},
       LAMBDA hits :
         IF hits = {} THEN {} ELSE ToSet(element_synonyms[Min(hits)].synonyms))

\* keywords: a list of str; the result as a set
expand_keywords_with_synonyms(keywords) ==
  ToSet(keywords) \cup UNION {first_synonyms(lower(keywords[i])) : i \in 1..Len(keywords)}

is_quote(c) == c \in {"'", "\""}

\* re.findall(r'["\']([^"\']+)["\']', s) from position i on
RECURSIVE findall_quoted(_, _)
findall_quoted(s, i) ==
  IF i > Len(s) THEN <<>>
  ELSE With({j \in (i + 1)..Len(s) : is_quote(s[j])},
            LAMBDA closing :
              IF is_quote(s[i]) /\ closing # {} /\ Min(closing) > i + 1
              THEN <<SubSeq(s, i + 1, Min(closing) - 1)>>
                   \o findall_quoted(s, Min(closing) + 1)
              ELSE findall_quoted(s, i + 1))

\* \w of the regular expression
is_word_char(c) == isupper(c) \/ islower(c) \/ c \in Digits \/ c = "_"

\* re.sub(r'[^\w\s]', '', word)
clean(word) == SelectSeq(word, LAMBDA c : is_word_char(c) \/ c = " ")

\* the words a capitalized target may not be
excluded_targets ==
  { <<"C","l","i","c","k">>, <<"S","e","l","e","c","t">>, <<"E","n","t","e","r">>,
    <<"N","a","v","i","g","a","t","e">>, <<"O","p","e","n">> }

\* the capitalized words after the first word, cleaned
capitalized_targets(words) ==
  With([i \in 1..Len(words) |-> clean(words[i])],
       LAMBDA clean_word :
         With(SelectSeq([i \in 1..Len(words) |-> i],
                        LAMBDA i : /\ i > 1
                                   /\ Len(words[i]) > 3
                                   /\ isupper(words[i][1])
                                   /\ clean_word[i] # <<>>
                                   /\ clean_word[i] \notin excluded_targets),
              LAMBDA kept : [n \in 1..Len(kept) |-> clean_word[kept[n]]]))

\* the action types of which some variation is a substring of step_lower
actions_of(step_lower) ==
  {action_keywords[i].action_type : i \in
     {i \in 1..Len(action_keywords) :
        \E v \in ToSet(action_keywords[i].variations) : contains(step_lower, v)}}

extract_keywords_from_step(step) ==
  With(lower(step),
       LAMBDA step_lower :
         With(split(step),
              LAMBDA words :
                [actions  |-> actions_of(step_lower),
                 elements |-> {e \in ToSet(element_types) : contains(step_lower, e)},
                 targets  |-> findall_quoted(step, 1) \o capitalized_targets(words)]))

----------------------------------------------------------------------------
(* calculate_relevance_score                                               *)

RECURSIVE SumSeq(_)
SumSeq(seq) == IF seq = <<>> THEN 0 ELSE Head(seq) + SumSeq(Tail(seq))

\* no penalty for any hotspot name
no_penalty(hotspot_text) == 0

\* PENALTY: a generic hotspot name
generic_penalty(hotspot_text) ==
  IF strip(hotspot_text) \in generic_terms THEN -150 ELSE 0

\* the words of the request that are longer than 4 and no stop words
domain_keywords(request_lower) ==
  SelectSeq(split(request_lower), LAMBDA word : Len(word) > 4 /\ word \notin stop_words)

\* SEMANTIC DOMAIN MATCHING: 0.5 per expanded keyword that is a substring of
\* the hotspot text, and 0.3 times the best ratio above 0.7 of the others
domain_bonus(hotspot_text, request_context) ==
  IF request_context = <<>> THEN [exact |-> 0, fuzzy |-> 0]
  ELSE With(expand_keywords_with_synonyms(domain_keywords(lower(request_context))),
            LAMBDA expanded_keywords :
              With({k \in expanded_keywords : contains(hotspot_text, k)},
                   LAMBDA matched :
                     With({r \in {fuzzy_match_score(k, hotspot_text) :
                                    k \in expanded_keywords \ matched} :
                             ratio_above(r, 70)},
                          LAMBDA fuzzy_match_scores :
                            [exact |-> Cardinality(matched) * 500,
                             fuzzy |-> IF fuzzy_match_scores = {} THEN 0
                                       ELSE ratio_times(ratio_max(fuzzy_match_scores),
                                                        300)])))

\* the bonus of a fuzzy match of a target: 0.6 times a ratio above 0.75
target_fuzzy_bonus(fuzzy_score) ==
  IF ratio_above(fuzzy_score, 75) THEN ratio_times(fuzzy_score, 600) ELSE 0

\* TARGET MATCHING, for one target
target_bonus(target, hotspot_text) ==
  With(lower(target),
       LAMBDA target_lower :
         IF target_lower = strip(hotspot_text) THEN 1200
         ELSE IF \/ contains(hotspot_text, target_lower)
                 \/ contains(target_lower, hotspot_text)
              THEN 700
         ELSE With(fuzzy_match_score(target_lower, hotspot_text), target_fuzzy_bonus))

\* TYPE MATCHING: the three checks are independent
type_bonus(hotspot_type, actions) ==
  IF hotspot_type = <<>> THEN 0
  ELSE (IF contains(hotspot_type, <<"b","u","t","t","o","n">>) /\ "click" \in actions
        THEN 350 ELSE 0)
     + (IF /\ \/ contains(hotspot_type, <<"i","n","p","u","t">>)
              \/ contains(hotspot_type, <<"f","i","e","l","d">>)
              \/ contains(hotspot_type, <<"t","e","x","t","_","f","i","e","l","d">>)
           /\ "enter" \in actions
        THEN 350 ELSE 0)
     + (IF contains(hotspot_type, <<"m","e","n","u">>) /\ "navigate" \in actions
        THEN 350 ELSE 0)

\* step_words, hotspot_words: set(text.split()) - stop_words
text_words(text) == ToSet(split(text)) \ stop_words

\* the common words longer than 4
meaningful_longer(common_words) ==
  {w \in common_words : Len(w) > 4 /\ w \notin generic_terms}

\* the common words that earn the bonus
meaningful_common(common_words) ==
  {w \in common_words : Len(w) > 3 /\ w \notin generic_terms}

\* PARTIAL TEXT MATCHING: 0.15 per meaningful common word
words_bonus(common_words) == Cardinality(meaningful_common(common_words)) * 150

\* max_fuzzy: the best ratio of a step word and a hotspot word both longer
\* than 4, 0.0 if there is no such pair
max_cross_ratio(step_words, hotspot_words) ==
  With({fuzzy_match_score(sw, hw) :
          sw \in {w \in step_words : Len(w) > 4},
          hw \in {w \in hotspot_words : Len(w) > 4}} \cup {[num |-> 0, den |-> 1]},
       ratio_max)

\* the bonus of the best cross-word ratio: 0.2 times a ratio above 0.8
cross_fuzzy_bonus(max_fuzzy) ==
  IF ratio_above(max_fuzzy, 80) THEN ratio_times(max_fuzzy, 200) ELSE 0

\* Cross-word fuzzy matching whether or not there are common words
cross_always(common_words, step_words, hotspot_words) ==
  With(max_cross_ratio(step_words, hotspot_words), cross_fuzzy_bonus)

\* Cross-word fuzzy matching: only without common words and with words on
\* both sides
cross_bonus(common_words, step_words, hotspot_words) ==
  IF common_words = {} /\ hotspot_words # {} /\ step_words # {}
  THEN With(max_cross_ratio(step_words, hotspot_words), cross_fuzzy_bonus)
  ELSE 0

\* the bonuses of the targets, in order
targets_bonus(targets, hotspot_text) ==
  [i \in 1..Len(targets) |-> target_bonus(targets[i], hotspot_text)]

\* the two word bonuses
text_bonus(step_words, hotspot_words) ==
  [words |-> words_bonus(step_words \cap hotspot_words),
   cross |-> cross_bonus(step_words \cap hotspot_words, step_words, hotspot_words)]

\* what each part adds to the running total, from the extracted keywords and
\* the lowercase text and type of the normalized hotspot
parts_of(step, step_keywords, hotspot_text, hotspot_type, request_context) ==
  With(domain_bonus(hotspot_text, request_context),
       LAMBDA domain :
         With(text_bonus(text_words(lower(step)), text_words(hotspot_text)),
              LAMBDA text :
                [generic      |-> generic_penalty(hotspot_text),
                 domain       |-> domain.exact,
                 domain_fuzzy |-> domain.fuzzy,
                 targets      |-> targets_bonus(step_keywords.targets, hotspot_text),
                 type         |-> type_bonus(hotspot_type, step_keywords.actions),
                 words        |-> text.words,
                 cross        |-> text.cross]))

\* what each part of calculate_relevance_score adds to the running total
score_parts(step, hotspot, request_context) ==
  With(normalize_hotspot(hotspot, DefaultImageSize),
       LAMBDA norm_hotspot :
         With(extract_keywords_from_step(chars(step)),
              LAMBDA step_keywords :
                With(lower(chars(get(norm_hotspot, "text", ""))),
                     LAMBDA hotspot_text :
                       parts_of(chars(step), step_keywords, hotspot_text,
                                lower(chars(get(norm_hotspot, "type", ""))),
                                chars(request_context)))))

\* the running total
total_of(p) ==
  p.generic + p.domain + p.domain_fuzzy + SumSeq(p.targets) + p.type + p.words + p.cross

\* the running total before the clamp
unclamped_score(step, hotspot, request_context) ==
  With(score_parts(step, hotspot, request_context), total_of)

\* the running total as it is
unclamped(score) == score

\* max(0.0, min(score, 2.0))
clamp(score) ==
  IF score > 2 * ScoreScale THEN 2 * ScoreScale
  ELSE IF score < 0 THEN 0
  ELSE score

calculate_relevance_score(step, hotspot, request_context) ==
  With(unclamped_score(step, hotspot, request_context), clamp)

----------------------------------------------------------------------------
(* The inputs of the scorer and of the assignment.                         *)

StepTexts ==
  <<
    "Click the Submit button",
    "Enter your new credit card number",
    "Click the Payment Method button",
    "Open 'Order History' in the Menu"
  >>

RequestContexts ==
  <<
    "",
    "update my payment method",
    "check payments"
  >>

HotspotRecords ==
  <<
    \* {"name": "Submit", "type": "button"}
    [name |-> "Submit",
     type |-> "button"],
    \* {"name": "Card Number Field", "type": "text_field", "settings": {"positionX": 0.25, "positionY": 0.5, "width": 0.2, "height": 0.1}}
    [name |-> "Card Number Field",
     type |-> "text_field",
     settings |-> [py_type |-> "dict", items |-> [positionX |-> 250, positionY |-> 500, width |-> 200, height |-> 100]]],
    \* {"name": "Payment Method", "type": "BUTTON", "settings": {"positionX": 0.5}}
    [name |-> "Payment Method",
     type |-> "BUTTON",
     settings |-> [py_type |-> "dict", items |-> [positionX |-> 500]]],
    \* {"name": "Orders History", "type": "menu", "settings": null}
    [name |-> "Orders History",
     type |-> "menu",
     settings |-> [py_type |-> "NoneType"]],
    \* {"name": "Payment", "type": "AUDIO"}
    [name |-> "Payment",
     type |-> "AUDIO"],
    \* {"text": "Submit", "type": "Audio", "coordinates": {"x": 10, "y": 20, "width": 100, "height": 40}}
    [text |-> "Submit",
     type |-> "Audio",
     coordinates |-> [x |-> 10, y |-> 20, width |-> 100, height |-> 40]],
    \* {"text": "Submit", "type": "button", "coordinates": {"x": 10, "y": 20, "width": 100, "height": 40}}
    [text |-> "Submit",
     type |-> "button",
     coordinates |-> [x |-> 10, y |-> 20, width |-> 100, height |-> 40]],
    \* {"type": "button"}
    [type |-> "button"],
    \* {"name": "Next", "type": "button"}
    [name |-> "Next",
     type |-> "button"],
    \* {}
    [k \in {} |-> 0],
    \* {"name": "Card Number Field", "type": "text_field"}
    [name |-> "Card Number Field",
     type |-> "text_field"]
  >>

\* the visual_items arguments
VisualItemLists ==
  <<
    \* two images; the Submit hotspot on both (equal scores), an AUDIO hotspot
    <<[fileId |-> "imgA", hotspots |-> <<HotspotRecords[1], HotspotRecords[5], HotspotRecords[9]>>],
      [fileId |-> "imgB", hotspots |-> <<HotspotRecords[7], HotspotRecords[2], HotspotRecords[3], HotspotRecords[4]>>]>>,
    \* one image holding every matching hotspot
    <<[fileId |-> "imgA", hotspots |-> <<HotspotRecords[1], HotspotRecords[2], HotspotRecords[3], HotspotRecords[4], HotspotRecords[6]>>]>>,
    \* an item without fileId, an item without hotspots, a canonical Audio hotspot
    <<[hotspots |-> <<HotspotRecords[3], HotspotRecords[8]>>],
      [fileId |-> "imgB"],
      [fileId |-> "imgC", hotspots |-> <<HotspotRecords[6], HotspotRecords[5], HotspotRecords[4], HotspotRecords[10]>>]>>,
    \* three images with the same hotspots
    <<[fileId |-> "imgA", hotspots |-> <<HotspotRecords[3], HotspotRecords[2]>>],
      [fileId |-> "imgB", hotspots |-> <<HotspotRecords[3], HotspotRecords[2]>>],
      [fileId |-> "imgC", hotspots |-> <<HotspotRecords[3], HotspotRecords[1]>>]>>,
    \* no visual items
    <<>>,
    \* an item whose fileId is the empty str
    <<[fileId |-> "", hotspots |-> <<HotspotRecords[1]>>],
      [fileId |-> "imgB", hotspots |-> <<HotspotRecords[2]>>]>>
  >>

----------------------------------------------------------------------------
(* The pure functions, applied to inputs drawn from bounded sets.          *)

\* d restricted to the keys in keys
restrict(d, keys) == [k \in keys |-> d[k]]

\* settings values: mappings with any subset of the four keys, and values
\* that are no mapping (None, a list)
SettingsValues ==
  LET full == { [positionX |-> 250, positionY |-> 500, width |-> 200, height |-> 100],
                [positionX |-> 999, positionY |-> 1, width |-> 1000, height |-> 333],
                [positionX |-> -1, positionY |-> -250, width |-> 500, height |-> 50] }
  IN  {[py_type |-> "dict", items |-> restrict(d, keys)] :
         d \in full, keys \in SUBSET {"positionX", "positionY", "width", "height"}}
      \cup {[py_type |-> "NoneType"], [py_type |-> "list"]}

\* alternate-schema records: any subset of name, type, settings
AlternateHotspots ==
  LET names == {[k \in {} |-> 0], [name |-> "Submit"], [name |-> ""]}
      types == {[k \in {} |-> 0], [type |-> "Text_Field"],
                [type |-> "AUDIO"], [type |-> "toggle"]}
      settings == {[k \in {} |-> 0]} \cup {[settings |-> s] : s \in SettingsValues}
  IN  {n @@ t @@ s : n \in names, t \in types, s \in settings}

\* records with text and coordinates, with and without further fields, and
\* records with only one of the two
StandardHotspots ==
  LET text   == [text |-> "Save"]
      coords == [coordinates |-> [x |-> 10, y |-> 20, width |-> 100, height |-> 40]]
      more   == {[k \in {} |-> 0],
                 [type |-> "Button"],
                 [type |-> "text_field",
                  name |-> "Old",
                  settings |-> [py_type |-> "dict", items |-> [positionX |-> 500]]]}
  IN  {text @@ coords @@ m : m \in more} \cup {text @@ m : m \in more}
      \cup {coords @@ m : m \in more}

ImageSizes == {DefaultImageSize, <<640, 480>>, <<33, 7>>}

NoCall ==
  /\ used_images = <<>>
  /\ mappings = <<>>
  /\ result = None
  /\ fs = <<>>
  /\ probed = <<>>
  /\ ret = None

InitNormalize ==
  /\ call \in {[fn |-> "normalize_hotspot", hotspot |-> h, image_size |-> s] :
                 h \in AlternateHotspots \cup StandardHotspots, s \in ImageSizes}
  /\ pc = "call"
  /\ NoCall

NormalizeHotspot ==
  /\ pc = "call"
  /\ call.fn = "normalize_hotspot"
  /\ ret' = Some(normalize_hotspot(call.hotspot, call.image_size))
  /\ pc' = "return"
  /\ UNCHANGED <<call, used_images, mappings, result, fs, probed>>

SpecNormalize == InitNormalize /\ [][NormalizeHotspot]_vars

\* the scores of the catalogued inputs, computed once
ScoreTable ==
  [s \in ToSet(StepTexts), h \in ToSet(HotspotRecords), c \in ToSet(RequestContexts) |->
     calculate_relevance_score(s, h, c)]

\* the keywords of the expand_keywords_with_synonyms calls: in two groups, in
\* one group, capitalized, in no group
Keywords ==
  { <<"t","r","a","n","s","a","c","t","i","o","n">>,
    <<"p","a","y","m","e","n","t">>,
    <<"O","r","d","e","r">>,
    <<"b","o","o","k","i","n","g">>,
    <<"p","r","o","f","i","l","e">>,
    <<"p","o","l","i","c","y">>,
    <<"c","a","l","l">>,
    <<"s","u","b","m","i","t">> }

MaxKeywords == 2

InitExpand ==
  /\ call \in {[fn |-> "expand_keywords_with_synonyms", keywords |-> k] :
                 k \in UNION {[1..n -> Keywords] : n \in 0..MaxKeywords}}
  /\ pc = "call"
  /\ NoCall

ExpandKeywords ==
  /\ pc = "call"
  /\ call.fn = "expand_keywords_with_synonyms"
  /\ ret' = Some(expand_keywords_with_synonyms(call.keywords))
  /\ pc' = "return"
  /\ UNCHANGED <<call, used_images, mappings, result, fs, probed>>

SpecExpand == InitExpand /\ [][ExpandKeywords]_vars

InitScore ==
  /\ call \in {[fn |-> "calculate_relevance_score", step |-> s, hotspot |-> h,
                request_context |-> c] :
                 s \in ToSet(StepTexts), h \in ToSet(HotspotRecords),
                 c \in ToSet(RequestContexts)}
  /\ pc = "call"
  /\ NoCall

CalculateRelevanceScore ==
  /\ pc = "call"
  /\ call.fn = "calculate_relevance_score"
  /\ ret' = Some(ScoreTable[call.step, call.hotspot, call.request_context])
  /\ pc' = "return"
  /\ UNCHANGED <<call, used_images, mappings, result, fs, probed>>

SpecScore == InitScore /\ [][CalculateRelevanceScore]_vars

----------------------------------------------------------------------------
(* map_steps_to_images                                                     *)

\* the defaults of threshold, max_image_reuse and diversity_penalty
DefaultThreshold == 150

DefaultMaxImageReuse == 3

DefaultDiversityPenalty == 150

\* visual_item.get('fileId')
file_id_of(visual_item) ==
  IF "fileId" \in DOMAIN visual_item THEN Some(visual_item.fileId) ELSE None

\* the hotspots in the order the two nested loops visit them, each with the
\* file_id of its visual item
RECURSIVE scan_order(_)
scan_order(visual_items) ==
  IF visual_items = <<>> THEN <<>>
  ELSE LET visual_item == Head(visual_items)
           hotspots    == get(visual_item, "hotspots", <<>>)
       IN  [i \in 1..Len(hotspots) |->
              [file_id |-> file_id_of(visual_item), hotspot |-> hotspots[i]]]
           \o scan_order(Tail(visual_items))

\* the comparison with 'AUDIO' without upper()
is_audio_exact(hotspot) == chars(get(hotspot, "type", "")) = <<"A","U","D","I","O">>

\* hotspot.get('type', '').upper() == 'AUDIO'
is_audio(hotspot) == upper(chars(get(hotspot, "type", ""))) = <<"A","U","D","I","O">>

\* used_images.get(file_id, 0)
used_count(used, file_id) == IF file_id \in DOMAIN used THEN used[file_id] ELSE 0

\* the score of a catalogued input
score_of(step, hotspot, request_context) == ScoreTable[step, hotspot, request_context]

\* every score passes
any_score(score, threshold) == TRUE

\* score >= threshold
is_candidate(score, threshold) == score >= threshold

\* adjusted_score = score - reuse_count * diversity_penalty
adjusted_score(score, reuse_count, diversity_penalty) ==
  score - reuse_count * diversity_penalty

\* self.normalize_hotspot(hotspot) of the catalogued hotspots, computed once
NormalizedTable ==
  [h \in ToSet(HotspotRecords) |-> normalize_hotspot(h, DefaultImageSize)]

\* the AUDIO test of the catalogued hotspots, computed once
AudioTable == [h \in ToSet(HotspotRecords) |-> is_audio(h)]

\* the candidates list that stays empty for a step equal to the last step of
\* the list
candidates_unless_last(entries, step, c, used) ==
  IF step = c.steps[Len(c.steps)] THEN <<>>
  ELSE With(SelectSeq([i \in 1..Len(entries) |-> i],
                      LAMBDA i : /\ ~AudioTable[entries[i].hotspot]
                                 /\ is_candidate(score_of(step, entries[i].hotspot,
                                                          c.request_context),
                                                 c.threshold)),
            LAMBDA kept :
              [n \in 1..Len(kept) |->
                 [file_id        |-> entries[kept[n]].file_id,
                  hotspot        |-> NormalizedTable[entries[kept[n]].hotspot],
                  score          |-> score_of(step, entries[kept[n]].hotspot,
                                              c.request_context),
                  adjusted_score |->
                    adjusted_score(score_of(step, entries[kept[n]].hotspot,
                                            c.request_context),
                                   used_count(used, entries[kept[n]].file_id),
                                   c.diversity_penalty)]])

\* the candidates list of one step: the scan of entries, a list in scan order
RECURSIVE candidates_of(_, _, _, _)
candidates_of(entries, step, c, used) ==
  IF entries = <<>> THEN <<>>
  ELSE LET file_id == Head(entries).file_id
           hotspot == Head(entries).hotspot
           score   == score_of(step, hotspot, c.request_context)
           found   ==
             IF AudioTable[hotspot] THEN <<>>
             ELSE IF is_candidate(score, c.threshold)
                  THEN << [file_id        |-> file_id,
                           hotspot        |-> NormalizedTable[hotspot],
                           score          |-> score,
                           adjusted_score |->
                             adjusted_score(score, used_count(used, file_id),
                                            c.diversity_penalty)] >>
                  ELSE <<>>
       IN  found \o candidates_of(Tail(entries), step, c, used)

\* the last of the candidates of the highest adjusted_score
max_candidate_last(candidates) ==
  candidates[CHOOSE i \in 1..Len(candidates) :
               \A j \in 1..Len(candidates) :
                  \/ candidates[i].adjusted_score > candidates[j].adjusted_score
                  \/ /\ candidates[i].adjusted_score = candidates[j].adjusted_score
                     /\ i >= j]

\* max(candidates, key=adjusted_score): the first of the maximal ones
max_candidate(candidates) ==
  candidates[CHOOSE i \in 1..Len(candidates) :
               \A j \in 1..Len(candidates) :
                  \/ candidates[i].adjusted_score > candidates[j].adjusted_score
                  \/ /\ candidates[i].adjusted_score = candidates[j].adjusted_score
                     /\ i <= j]

\* sorted(candidates, key=adjusted_score, reverse=True): descending and stable,
\* so candidates of equal key keep their order
RECURSIVE sorted_candidates(_)
sorted_candidates(candidates) ==
  IF candidates = <<>> THEN <<>>
  ELSE LET n      == Len(candidates)
           last   == candidates[n]
           front  == sorted_candidates(SubSeq(candidates, 1, n - 1))
           before == Cardinality({i \in 1..Len(front) :
                                    front[i].adjusted_score >= last.adjusted_score})
       IN  SubSeq(front, 1, before) \o <<last>> \o SubSeq(front, before + 1, Len(front))

\* the limit compared with <= instead of <
up_to_limit(used, file_id, max_image_reuse) ==
  used_count(used, file_id) <= max_image_reuse

\* whether the reuse limit allows one more use of file_id
under_limit(used, file_id, max_image_reuse) ==
  used_count(used, file_id) < max_image_reuse

\* the selection that gives up when the best candidate is over the limit
select_without_fallback(candidates, used, max_image_reuse) ==
  IF candidates = <<>> THEN None
  ELSE IF under_limit(used, max_candidate(candidates).file_id, max_image_reuse)
       THEN Some(max_candidate(candidates))
       ELSE None

\* the candidate the step is assigned, or None
select_candidate(candidates, used, max_image_reuse) ==
  IF candidates = <<>> THEN None
  ELSE LET best_candidate == max_candidate(candidates)
           alternatives   == Tail(sorted_candidates(candidates))
           allowed        == {i \in 1..Len(alternatives) :
                                under_limit(used, alternatives[i].file_id, max_image_reuse)}
       IN  IF under_limit(used, best_candidate.file_id, max_image_reuse)
           THEN Some(best_candidate)
           ELSE IF allowed = {} THEN None
           ELSE Some(alternatives[CHOOSE i \in allowed : \A j \in allowed : i <= j])

\* the counter started anew with the image just chosen
count_anew(used, file_id) == [f \in {file_id} |-> 1]

\* used_images[file_id] = used_images.get(file_id, 0) + 1
count_use(used, file_id) ==
  [f \in DOMAIN used \cup {file_id} |->
     IF f = file_id THEN used_count(used, file_id) + 1 ELSE used[f]]

\* the Mapping that records the adjusted score of the chosen candidate
best_match_adjusted(step_idx, step, chosen) ==
  [step_index      |-> step_idx,
   step            |-> step,
   file_id         |-> IF chosen = None THEN None ELSE chosen[1].file_id,
   hotspot         |-> IF chosen = None THEN None ELSE Some(chosen[1].hotspot),
   relevance_score |-> IF chosen = None THEN 0 ELSE chosen[1].adjusted_score,
   sequence_number |-> None]

\* the Mapping of one step
best_match_of(step_idx, step, chosen) ==
  [step_index      |-> step_idx,
   step            |-> step,
   file_id         |-> IF chosen = None THEN None ELSE chosen[1].file_id,
   hotspot         |-> IF chosen = None THEN None ELSE Some(chosen[1].hotspot),
   relevance_score |-> IF chosen = None THEN 0 ELSE chosen[1].score,
   sequence_number |-> None]

\* the debug print of a scanned hotspot with score > 0 slices file_id, which
\* raises TypeError for the None of a visual item without fileId
debug_scan_raises(entries, step, c) ==
  \E i \in 1..Len(entries) :
    /\ ~AudioTable[entries[i].hotspot]
    /\ score_of(step, entries[i].hotspot, c.request_context) > 0
    /\ entries[i].file_id = None

\* the debug prints of the chosen candidate slice its file_id as well
debug_choice_raises(chosen) == chosen # None /\ chosen[1].file_id = None

\* whether the iteration for step raises under debug
debug_raises(step, c, used) ==
  \/ debug_scan_raises(scan_order(c.visual_items), step, c)
  \/ debug_choice_raises(
       select_candidate(candidates_of(scan_order(c.visual_items), step, c, used),
                        used, c.max_image_reuse))

\* one iteration of the loop over the steps
MapStep ==
  /\ pc = "map_loop"
  /\ Len(mappings) < Len(call.steps)
  /\ ~(call.debug /\ debug_raises(call.steps[Len(mappings) + 1], call, used_images))
  /\ \E step_idx \in {Len(mappings)} :
       \E step \in {call.steps[step_idx + 1]} :
         \E candidates \in {candidates_of(scan_order(call.visual_items), step, call,
                                           used_images)} :
           \E chosen \in {select_candidate(candidates, used_images,
                                           call.max_image_reuse)} :
             /\ mappings' = Append(mappings, best_match_of(step_idx, step, chosen))
             /\ used_images' = IF chosen = None THEN used_images
                               ELSE count_use(used_images, chosen[1].file_id)
  /\ UNCHANGED <<call, pc, result, fs, probed, ret>>

\* one iteration of the loop over the steps in which a debug print raises:
\* the exception leaves map_steps_to_images
MapRaise ==
  /\ pc = "map_loop"
  /\ Len(mappings) < Len(call.steps)
  /\ call.debug
  /\ debug_raises(call.steps[Len(mappings) + 1], call, used_images)
  /\ pc' = "raised"
  /\ UNCHANGED <<call, used_images, mappings, result, fs, probed, ret>>

\* the number of successive calls of map_steps_to_images
MaxCalls == 2

\* return mappings: ret holds the values returned so far, oldest first
MapReturn ==
  /\ pc = "map_loop"
  /\ call.fn = "map_steps_to_images"
  /\ Len(mappings) = Len(call.steps)
  /\ ret' = Append(ret, mappings)
  /\ pc' = "return"
  /\ UNCHANGED <<call, used_images, mappings, result, fs, probed>>

\* the counter of the earlier call carried into the next one
used_images_kept(previous) == previous

\* used_images = {} at the entry of a call, whatever an earlier call left
used_images_at_entry(previous) == <<>>

\* the same VisionMapper is called once more with the same arguments
MapAgain ==
  /\ pc = "return"
  /\ call.fn = "map_steps_to_images"
  /\ Len(ret) < MaxCalls
  /\ mappings' = <<>>
  /\ used_images' = used_images_at_entry(used_images)
  /\ pc' = "map_loop"
  /\ UNCHANGED <<call, result, fs, probed, ret>>

----------------------------------------------------------------------------
(* process_simulation_with_vision                                          *)
(*                                                                         *)
(* A str that names a path is the sequence of its components, so Path(s)   *)
(* is s, Path('.') is the empty sequence and base_dir / name is the record *)
(* of the directory, the fileId and the suffix appended to it.             *)

\* Path(p).parent
parent(p) == IF p = <<>> THEN <<>> ELSE SubSeq(p, 1, Len(p) - 1)

\* if mapping['file_id']: neither None nor the empty str
has_file_id(mapping) == mapping.file_id # None /\ mapping.file_id[1] # ""

\* sum(1 for m in mappings if m['file_id'])
mapped_steps(ms) == Cardinality({i \in 1..Len(ms) : has_file_id(ms[i])})

\* the directory level 2 would give were the source path itself the directory
base_dir_source_itself(file_id, c) ==
  IF file_id \in DOMAIN c.image_dirs THEN c.image_dirs[file_id]
  ELSE IF c.visual_items_source_path # None THEN c.visual_items_source_path[1]
  ELSE IF c.image_directory # None THEN c.image_directory[1]
  ELSE <<>>

\* the directory to look in for one image
base_dir_of(file_id, c) ==
  IF file_id \in DOMAIN c.image_dirs THEN c.image_dirs[file_id]
  ELSE IF c.visual_items_source_path # None THEN parent(c.visual_items_source_path[1])
  ELSE IF c.image_directory # None THEN c.image_directory[1]
  ELSE <<>>

\* base_dir / f"{file_id}{suffix}"
path_of(base_dir, file_id, suffix) == [dir |-> base_dir, name |-> file_id, suffix |-> suffix]

\* the list with the lowercase jpg ahead of the uppercase one
possible_paths_jpg_first(base_dir, file_id) ==
  << path_of(base_dir, file_id, ""),
     path_of(base_dir, file_id, ".jpg"),
     path_of(base_dir, file_id, ".JPG"),
     path_of(base_dir, file_id, ".PNG"),
     path_of(base_dir, file_id, ".png"),
     path_of(base_dir, file_id, ".JPEG"),
     path_of(base_dir, file_id, ".jpeg") >>

possible_paths(base_dir, file_id) ==
  << path_of(base_dir, file_id, ""),
     path_of(base_dir, file_id, ".JPG"),
     path_of(base_dir, file_id, ".jpg"),
     path_of(base_dir, file_id, ".PNG"),
     path_of(base_dir, file_id, ".png"),
     path_of(base_dir, file_id, ".JPEG"),
     path_of(base_dir, file_id, ".jpeg") >>

\* path.exists(), files the files of the path's directory that belong to
\* the path's fileId
exists(path, files) == path.suffix \in files.suffixes

\* the loop that tests every path and keeps the last one that exists
probe_all(paths, files) ==
  With({i \in 1..Len(paths) : exists(paths[i], files)},
       LAMBDA hits :
         [tested     |-> paths,
          image_path |-> IF hits = {} THEN None ELSE Some(paths[Max(hits)])])

\* the loop over possible_paths: the paths it tests, and image_path
probe(paths, files) ==
  With({i \in 1..Len(paths) : exists(paths[i], files)},
       LAMBDA hits :
         [tested     |-> IF hits = {} THEN paths ELSE SubSeq(paths, 1, Min(hits)),
          image_path |-> IF hits = {} THEN None ELSE Some(paths[Min(hits)])])

\* mapping_result before the annotation
mapping_result(mapping, image_path) ==
  [step_index        |-> mapping.step_index,
   step              |-> mapping.step,
   file_id           |-> mapping.file_id,
   relevance_score   |-> mapping.relevance_score,
   hotspot_text      |-> get(mapping.hotspot[1], "text", "N/A"),
   hotspot_type      |-> get(mapping.hotspot[1], "type", "N/A"),
   image_found       |-> image_path # None,
   highlighted_image |-> None]

\* the entry of a mapping without file_id
unmatched_result(mapping) ==
  [step_index      |-> mapping.step_index,
   step            |-> mapping.step,
   file_id         |-> None,
   relevance_score |-> 0,
   hotspot_text    |-> "No match found",
   image_found     |-> FALSE]

\* highlight_hotspot_on_image: Image.open raises on a file that is no image;
\* otherwise the image with the box and the label drawn from the hotspot
\* normalized for the size of the image
highlight_hotspot_on_image(image_path, hotspot, files) ==
  IF ~files.readable
  THEN [raised |-> TRUE, message |-> "cannot identify image file"]
  ELSE With(normalize_hotspot(hotspot, files.size),
            LAMBDA norm_hotspot :
              With(get(norm_hotspot, "coordinates", [k \in {} |-> 0]),
                   LAMBDA coords :
                     [raised |-> FALSE,
                      value  |->
                        [image_path |-> image_path,
                         box   |-> << get(coords, "x", 0) - 5,
                                      get(coords, "y", 0) - 5,
                                      get(coords, "x", 0) + get(coords, "width", 100) + 5,
                                      get(coords, "y", 0) + get(coords, "height", 40) + 5 >>,
                         label |-> get(norm_hotspot, "text", "")]]))

\* the annotation that drops the exception without recording it
annotate_silently(entry, outcome) ==
  IF outcome.raised THEN entry
  ELSE [entry EXCEPT !.highlighted_image = Some(outcome.value)]

\* try: highlighted_image = highlighted; except Exception: error = str(e)
annotate(entry, outcome) ==
  IF outcome.raised
  THEN [k \in DOMAIN entry \cup {"error"} |->
          IF k = "error" THEN outcome.message ELSE entry[k]]
  ELSE [entry EXCEPT !.highlighted_image = Some(outcome.value)]

\* the entry when the annotation is attempted whether or not a path exists
annotated_result(mapping, found, files) ==
  IF found.image_path = None
  THEN annotate(mapping_result(mapping, None),
                [raised |-> TRUE, message |-> "No such file or directory"])
  ELSE annotate(mapping_result(mapping, found.image_path),
                highlight_hotspot_on_image(found.image_path[1], mapping.hotspot[1], files))

\* the entry of a mapping with file_id
matched_result(mapping, found, files) ==
  IF found.image_path = None THEN mapping_result(mapping, None)
  ELSE annotate(mapping_result(mapping, found.image_path),
                highlight_hotspot_on_image(found.image_path[1], mapping.hotspot[1], files))

\* d with d[key] = value
put(d, key, value) == [k \in DOMAIN d \cup {key} |-> IF k = key THEN value ELSE d[k]]

\* bound of the number of files of one fileId in one directory
MaxFiles == 2

\* the size of the images on disk
DiskImageSize == <<640, 480>>

\* what a directory may hold for one fileId: the suffixes of the files that
\* exist, and whether they are readable as images
Listings ==
  {[suffixes |-> S, readable |-> r, size |-> DiskImageSize] :
     S \in {T \in SUBSET {"", ".JPG", ".jpg", ".PNG", ".png", ".JPEG", ".jpeg"} :
              Cardinality(T) <= MaxFiles},
     r \in BOOLEAN} \ {[suffixes |-> {}, readable |-> FALSE, size |-> DiskImageSize]}

\* mappings = self.map_steps_to_images(...) has returned: result is built
ProcessStart ==
  /\ pc = "map_loop"
  /\ call.fn = "process_simulation_with_vision"
  /\ Len(mappings) = Len(call.steps)
  /\ result' = Some([total_steps  |-> Len(call.steps),
                     mapped_steps |-> mapped_steps(mappings),
                     mappings     |-> <<>>])
  /\ pc' = "process_loop"
  /\ UNCHANGED <<call, used_images, mappings, fs, probed, ret>>

\* one iteration of the loop over the mappings, for a mapping with file_id;
\* the files of the directory are fixed the first time they are looked at
ProcessMatched ==
  /\ pc = "process_loop"
  /\ Len(result[1].mappings) < Len(mappings)
  /\ \E mapping \in {mappings[Len(result[1].mappings) + 1]} :
       /\ has_file_id(mapping)
       /\ \E base_dir \in {base_dir_of(mapping.file_id[1], call)} :
            \E files \in (IF <<base_dir, mapping.file_id[1]>> \in DOMAIN fs
                          THEN {fs[<<base_dir, mapping.file_id[1]>>]}
                          ELSE Listings) :
              \E found \in {probe(possible_paths(base_dir, mapping.file_id[1]), files)} :
                /\ fs' = put(fs, <<base_dir, mapping.file_id[1]>>, files)
                /\ probed' = Append(probed, found)
                /\ result' = Some([result[1] EXCEPT !.mappings =
                                     Append(@, matched_result(mapping, found, files))])
  /\ UNCHANGED <<call, pc, used_images, mappings, ret>>

\* one iteration of the loop over the mappings, for a mapping without file_id
ProcessUnmatched ==
  /\ pc = "process_loop"
  /\ Len(result[1].mappings) < Len(mappings)
  /\ \E mapping \in {mappings[Len(result[1].mappings) + 1]} :
       /\ ~has_file_id(mapping)
       /\ probed' = Append(probed, [tested |-> <<>>, image_path |-> None])
       /\ result' = Some([result[1] EXCEPT !.mappings =
                            Append(@, unmatched_result(mapping))])
  /\ UNCHANGED <<call, pc, used_images, mappings, fs, ret>>

\* return result
ProcessReturn ==
  /\ pc = "process_loop"
  /\ Len(result[1].mappings) = Len(mappings)
  /\ ret' = result
  /\ pc' = "return"
  /\ UNCHANGED <<call, used_images, mappings, result, fs, probed>>

----------------------------------------------------------------------------
(* The calls of map_steps_to_images and of process_simulation_with_vision. *)

\* bounds of the inputs of a call
MaxSteps == 3

MaxReuse == 2

\* the lists of at most n elements of S
SeqsUpTo(S, n) == UNION {[1..m -> S] : m \in 0..n}

Thresholds == {DefaultThreshold, 1500}

Penalties == {0, DefaultDiversityPenalty, 900}

InitMap ==
  /\ \E s \in SeqsUpTo({StepTexts[1], StepTexts[3], StepTexts[4]}, MaxSteps),
        v \in ToSet(VisualItemLists),
        t \in Thresholds,
        c \in {RequestContexts[1], RequestContexts[2]},
        k \in (-1)..MaxReuse,
        p \in Penalties,
        g \in BOOLEAN :
        call = [fn |-> "map_steps_to_images", steps |-> s, visual_items |-> v,
                threshold |-> t, debug |-> g, request_context |-> c,
                max_image_reuse |-> k, diversity_penalty |-> p]
  /\ pc = "map_loop"
  /\ NoCall

Next == MapStep \/ MapRaise \/ MapReturn

Spec == InitMap /\ [][Next]_vars

\* successive calls of map_steps_to_images with equal arguments
NextRepeat == MapStep \/ MapRaise \/ MapReturn \/ MapAgain

SpecRepeat == InitMap /\ [][NextRepeat]_vars

\* the steps arguments of process_simulation_with_vision
ProcessStepLists ==
  { <<>>,
    <<StepTexts[1]>>,
    <<StepTexts[4]>>,
    <<StepTexts[1], StepTexts[3]>>,
    <<StepTexts[1], StepTexts[1]>>,
    <<StepTexts[3], StepTexts[4]>> }

\* the visual_items arguments of process_simulation_with_vision
ProcessVisualItems == {VisualItemLists[1], VisualItemLists[3], VisualItemLists[6]}

\* the image_dirs arguments: None, and a map with an entry for one image
ImageDirs == {None, [f \in {"imgA"} |-> <<"shots", "a">>]}

\* the visual_items_source_path arguments: None, and the path of a file
SourcePaths == {None, Some(<<"data", "items.json">>)}

\* the image_directory arguments
ImageDirectories == {None, Some(<<"images">>)}

InitProcess ==
  /\ \E s \in ProcessStepLists,
        v \in ProcessVisualItems,
        i \in ImageDirectories,
        p \in SourcePaths,
        d \in ImageDirs :
        call = [fn |-> "process_simulation_with_vision", steps |-> s, visual_items |-> v,
                image_directory |-> i, visual_items_source_path |-> p, image_dirs |-> d,
                request_context |-> RequestContexts[1],
                threshold |-> DefaultThreshold, debug |-> FALSE, max_image_reuse |-> DefaultMaxImageReuse,
                diversity_penalty |-> DefaultDiversityPenalty]
  /\ pc = "map_loop"
  /\ NoCall

NextProcess == MapStep \/ ProcessStart \/ ProcessMatched \/ ProcessUnmatched \/ ProcessReturn

SpecProcess == InitProcess /\ [][NextProcess]_vars

\* the Mapping Rate line: mapped_steps / total_steps * 100 with one decimal,
\* in tenths of a percent, rounded to the nearest
mapping_rate(mapped, total) == (2 * 1000 * mapped + total) \div (2 * total)

\* the lines create_mapping_report writes for one entry of the Report
report_entry(mapping) ==
  [step_number |-> mapping.step_index + 1,
   step        |-> mapping.step,
   image       |-> get(mapping, "file_id", Some("None")),
   hotspot     |-> get(mapping, "hotspot_text", "N/A"),
   type        |-> get(mapping, "hotspot_type", "N/A"),
   relevance   |-> get(mapping, "relevance_score", 0),
   image_found |-> get(mapping, "image_found", FALSE)]

\* create_mapping_report: the division by total_steps raises
\* ZeroDivisionError for total_steps = 0
create_mapping_report(report) ==
  IF report.total_steps = 0
  THEN [raised |-> TRUE, message |-> "division by zero"]
  ELSE [raised |-> FALSE,
        value  |-> [total_steps  |-> report.total_steps,
                    mapped_steps |-> report.mapped_steps,
                    mapping_rate |-> mapping_rate(report.mapped_steps,
                                                  report.total_steps),
                    entries      |-> [i \in 1..Len(report.mappings) |->
                                        report_entry(report.mappings[i])]]]

\* the caller passes the Report returned to create_mapping_report
CreateMappingReport ==
  /\ pc = "return"
  /\ call.fn = "process_simulation_with_vision"
  /\ \E text \in {create_mapping_report(ret[1])} :
       IF text.raised
       THEN pc' = "raised" /\ ret' = ret
       ELSE pc' = "reported" /\ ret' = Append(ret, text.value)
  /\ UNCHANGED <<call, used_images, mappings, result, fs, probed>>

NextReport == NextProcess \/ CreateMappingReport

SpecReport == InitProcess /\ [][NextReport]_vars

----------------------------------------------------------------------------
(* Properties of map_steps_to_images (Spec) and of the scorer (SpecScore). *)

\* the number of Mappings of ms that chose file_id
ChosenCount(ms, file_id) ==
  Cardinality({i \in 1..Len(ms) : ms[i].hotspot # None /\ ms[i].file_id = file_id})

\* a type that is AUDIO in some letter case
AudioTyped(hotspot) ==
  lower(chars(get(hotspot, "type", ""))) = <<"a","u","d","i","o">>

\* the scanned hotspots that are not AUDIO and score at least the threshold
Qualifying(step, c) ==
  {e \in ToSet(scan_order(c.visual_items)) :
     /\ ~AudioTyped(e.hotspot)
     /\ ScoreTable[step, e.hotspot, c.request_context] >= c.threshold}

\* C1: in the list one map_steps_to_images call returns, no fileId is the
\* chosen file_id of more than max_image_reuse Mappings, and with
\* max_image_reuse <= 0 no step is matched at all.
C1_ReuseCap ==
  (call.fn = "map_steps_to_images" /\ ret # None) =>
    /\ \A i \in 1..Len(ret[1]) :
         ret[1][i].hotspot # None =>
           ChosenCount(ret[1], ret[1][i].file_id) <= call.max_image_reuse
    /\ call.max_image_reuse <= 0 =>
         \A i \in 1..Len(ret[1]) : ret[1][i].hotspot = None /\ ret[1][i].file_id = None

\* a returned list in which an image was chosen as often as the limit allows
\* and a later step with qualifying hotspots was left without match
C1_Witness ==
  /\ call.fn = "map_steps_to_images"
  /\ ret # None
  /\ call.max_image_reuse = 1
  /\ \E i, j \in 1..Len(ret[1]) :
       /\ i < j
       /\ ret[1][i].hotspot # None
       /\ ChosenCount(ret[1], ret[1][i].file_id) = 1
       /\ ret[1][j].hotspot = None
       /\ Qualifying(call.steps[j], call) # {}

\* C2: calculate_relevance_score returns a value in [0.0, 2.0], whatever the
\* penalty and the bonuses add up to.
C2_ScoreRange ==
  (call.fn = "calculate_relevance_score" /\ ret # None) =>
    ret[1] >= 0 /\ ret[1] <= 2 * ScoreScale

\* a call whose running total is above 2.0
C2_Witness ==
  /\ call.fn = "calculate_relevance_score"
  /\ ret # None
  /\ unclamped_score(call.step, call.hotspot, call.request_context) > 2 * ScoreScale
  /\ ret[1] = 2 * ScoreScale

\* no Mapping of ms has a matched hotspot of type AUDIO
NoAudioMatch(ms) ==
  \A i \in 1..Len(ms) : ms[i].hotspot # None => ~AudioTyped(ms[i].hotspot[1])

\* C3: no Mapping that map_steps_to_images builds or returns has a matched
\* hotspot whose type is AUDIO in any letter case, in either schema, and no
\* AUDIO hotspot is in the candidates list of a step.
C3_AudioFilter ==
  /\ NoAudioMatch(mappings)
  /\ ret # None => NoAudioMatch(ret[1])
  /\ (pc = "map_loop" /\ Len(mappings) < Len(call.steps)) =>
       \A c \in ToSet(candidates_of(scan_order(call.visual_items),
                                    call.steps[Len(mappings) + 1], call, used_images)) :
          ~AudioTyped(c.hotspot)

\* a returned list for visual items with a hotspot of type "Audio" that
\* scores more for a step than the hotspot the step was given
C3_Witness ==
  /\ call.fn = "map_steps_to_images"
  /\ ret # None
  /\ \E i \in 1..Len(ret[1]) :
       \E e \in ToSet(scan_order(call.visual_items)) :
          /\ get(e.hotspot, "type", "") = "Audio"
          /\ ScoreTable[call.steps[i], e.hotspot, call.request_context] >= call.threshold
          /\ ScoreTable[call.steps[i], e.hotspot, call.request_context]
               > ret[1][i].relevance_score

\* C4: a step for which no hotspot that is not AUDIO scores at least the
\* threshold gets a Mapping with file_id None, hotspot None and
\* relevance_score 0.0, and leaves used_images as it was.
C4_NoCandidate ==
  [][ ( /\ pc = "map_loop"
        /\ Len(mappings') = Len(mappings) + 1
        /\ Qualifying(call.steps[Len(mappings) + 1], call) = {} )
      => ( /\ mappings'[Len(mappings')].file_id = None
           /\ mappings'[Len(mappings')].hotspot = None
           /\ mappings'[Len(mappings')].relevance_score = 0
           /\ used_images' = used_images ) ]_vars

\* a step after a matched one, with scanned hotspots that score above zero
\* and below the threshold, left without match
C4_Witness ==
  /\ DOMAIN used_images # {}
  /\ \E i \in 2..Len(mappings) :
       /\ Qualifying(call.steps[i], call) = {}
       /\ mappings[i].hotspot = None
       /\ mappings[i].relevance_score = 0
       /\ \E e \in ToSet(scan_order(call.visual_items)) :
            /\ ~AudioTyped(e.hotspot)
            /\ ScoreTable[call.steps[i], e.hotspot, call.request_context] > 0

----------------------------------------------------------------------------
(* Properties of normalize_hotspot (SpecNormalize).                        *)

\* a normalize_hotspot call that has returned, for a record that is not in
\* the standard format and has no settings
ReturnedWithoutSettings ==
  /\ call.fn = "normalize_hotspot"
  /\ ret # None
  /\ ~("text" \in DOMAIN call.hotspot /\ "coordinates" \in DOMAIN call.hotspot)
  /\ "settings" \notin DOMAIN call.hotspot

C6_StandardUnchanged ==
  ( /\ call.fn = "normalize_hotspot"
    /\ ret # None
    /\ "text" \in DOMAIN call.hotspot
    /\ "coordinates" \in DOMAIN call.hotspot )
  => ret[1] = call.hotspot

\* a standard record that also has name, settings and a type the mapping
\* would rename, normalized for an image that has not the default size
C6_Witness ==
  /\ call.fn = "normalize_hotspot"
  /\ ret # None
  /\ {"text", "coordinates", "name", "settings", "type"} \subseteq DOMAIN call.hotspot
  /\ call.hotspot.type = "text_field"
  /\ call.image_size # DefaultImageSize
  /\ ret[1] = call.hotspot

----------------------------------------------------------------------------
(* Properties of process_simulation_with_vision (SpecProcess).             *)

\* the mappings with file_id that the loop has processed
Resolved == {i \in 1..Len(probed) : has_file_id(mappings[i])}

\* the files that were found for the fileId of mapping i in the directory
\* that was searched
FilesOf(i) == fs[<<probed[i].tested[1].dir, mappings[i].file_id[1]>>]

\* the suffix of the path that was chosen for mapping i
ChosenSuffix(i) == probed[i].image_path[1].suffix

\* C7: file resolution tests fileId as-is, then with .JPG, .jpg, .PNG, .png,
\* .JPEG, .jpeg in this order, stops at the first path that exists and uses
\* it; without an existing path all seven are tested and no image is found.
C7_ProbeOrder ==
  \A i \in Resolved :
    LET order  == <<"", ".JPG", ".jpg", ".PNG", ".png", ".JPEG", ".jpeg">>
        tested == probed[i].tested
    IN  /\ Len(tested) \in 1..7
        /\ \A n \in 1..Len(tested) :
             /\ tested[n].suffix = order[n]
             /\ tested[n].name = mappings[i].file_id[1]
             /\ tested[n].dir = tested[1].dir
        /\ \A n \in 1..(Len(tested) - 1) : order[n] \notin FilesOf(i).suffixes
        /\ IF FilesOf(i).suffixes # {}
           THEN /\ probed[i].image_path = Some(tested[Len(tested)])
                /\ ChosenSuffix(i) \in FilesOf(i).suffixes
                /\ result[1].mappings[i].image_found
           ELSE /\ Len(tested) = 7
                /\ probed[i].image_path = None
                /\ ~result[1].mappings[i].image_found

\* a directory with the .png and the .jpeg file of an image: four paths are
\* tested in vain, the fifth is used
C7_Witness ==
  \E i \in Resolved :
    /\ FilesOf(i).suffixes = {".png", ".jpeg"}
    /\ Len(probed[i].tested) = 5
    /\ ChosenSuffix(i) = ".png"

\* a processed mapping whose directory holds X.jpg and X.JPG and no X
BothJpg(i) ==
  /\ i \in Resolved
  /\ {".jpg", ".JPG"} \subseteq FilesOf(i).suffixes
  /\ "" \notin FilesOf(i).suffixes

\* C8 as stated: with X.jpg and X.JPG in the directory and no X, the path
\* chosen is X.jpg.
C8_LowercaseChosen ==
  \A i \in 1..Len(probed) : BothJpg(i) => ChosenSuffix(i) = ".jpg"

\* C8: with X.jpg and X.JPG in the directory and no X, the uppercase variant
\* is tested before the lowercase one, X.JPG is the path chosen and X.jpg is
\* not tested; the same files give the same path every time.
C8_UppercaseChosen ==
  /\ \A i \in 1..Len(probed) :
       BothJpg(i) =>
         /\ ChosenSuffix(i) = ".JPG"
         /\ [n \in 1..Len(probed[i].tested) |-> probed[i].tested[n].suffix] = <<"", ".JPG">>
  /\ \A i, j \in Resolved :
       ( /\ probed[i].tested[1].dir = probed[j].tested[1].dir
         /\ mappings[i].file_id = mappings[j].file_id )
       => probed[i].image_path = probed[j].image_path

\* two steps matched to the same image, whose directory holds X.jpg and X.JPG
C8_Witness ==
  \E i, j \in 1..Len(probed) :
    /\ i < j
    /\ BothJpg(i)
    /\ BothJpg(j)
    /\ mappings[i].file_id = mappings[j].file_id
    /\ ChosenSuffix(j) = ".JPG"

\* the directory the priority gives for file_id, source_dir being what the
\* source path stands for
DirByPriority(file_id, source_dir) ==
  IF file_id \in DOMAIN call.image_dirs THEN call.image_dirs[file_id]
  ELSE IF call.visual_items_source_path # None THEN source_dir
  ELSE IF call.image_directory # None THEN call.image_directory[1]
  ELSE <<>>

\* C9 as stated: every path tested for a matched step lies in the directory
\* the priority gives, the second level being the source path.
C9_SourcePathSearched ==
  \A i \in Resolved :
    \A n \in 1..Len(probed[i].tested) :
      probed[i].tested[n].dir =
        DirByPriority(mappings[i].file_id[1], call.visual_items_source_path[1])

\* C9: every path tested for a matched step lies in one directory: the
\* image_dirs entry of the fileId if there is one, otherwise the parent
\* directory of the source path if one is given, otherwise image_directory if
\* given, otherwise the current directory; no other directory is tested,
\* whether or not the image is found.
C9_SourceParentSearched ==
  \A i \in Resolved :
    /\ probed[i].tested # <<>>
    /\ \A n \in 1..Len(probed[i].tested) :
         probed[i].tested[n].dir =
           DirByPriority(mappings[i].file_id[1],
                         SubSeq(call.visual_items_source_path[1], 1,
                                Len(call.visual_items_source_path[1]) - 1))

\* an image without image_dirs entry, with source path and image_directory
\* both given, that is not in the parent directory of the source path
C9_Witness ==
  \E i \in Resolved :
    /\ DOMAIN call.image_dirs # {}
    /\ mappings[i].file_id[1] \notin DOMAIN call.image_dirs
    /\ call.visual_items_source_path # None
    /\ call.image_directory # None
    /\ FilesOf(i).suffixes = {}
    /\ Len(probed[i].tested) = 7
    /\ probed[i].tested[7].dir = <<"data">>
    /\ ~result[1].mappings[i].image_found

\* C10: when the annotation of a found image raises, the entry of the step
\* has an error field and no highlighted image, and the call still returns a
\* Report with one entry for every step, in order.
C10_FailureIsolated ==
  /\ \A i \in Resolved :
       (probed[i].image_path # None /\ ~FilesOf(i).readable) =>
         /\ "error" \in DOMAIN result[1].mappings[i]
         /\ result[1].mappings[i].highlighted_image = None
  /\ (call.fn = "process_simulation_with_vision" /\ ret # None) =>
       /\ Len(ret[1].mappings) = Len(call.steps)
       /\ \A i \in 1..Len(call.steps) :
            /\ ret[1].mappings[i].step_index = i - 1
            /\ ret[1].mappings[i].step = call.steps[i]

\* a Report whose first entry has the error and whose second entry has its
\* highlighted image
C10_Witness ==
  /\ call.fn = "process_simulation_with_vision"
  /\ ret # None
  /\ Len(ret[1].mappings) = 2
  /\ "error" \in DOMAIN ret[1].mappings[1]
  /\ ret[1].mappings[1].highlighted_image = None
  /\ "highlighted_image" \in DOMAIN ret[1].mappings[2]
  /\ ret[1].mappings[2].highlighted_image # None

\* C11: when none of the tested paths exists for a matched step, the entry of
\* the step keeps file_id, hotspot text, hotspot type and relevance score of
\* the Mapping, has image_found false and highlighted_image None and no error
\* field, and the call goes on to return a Report with an entry for every
\* step.
C11_ImageNotFound ==
  /\ \A i \in Resolved :
       FilesOf(i).suffixes = {} =>
         /\ probed[i].image_path = None
         /\ result[1].mappings[i].file_id = mappings[i].file_id
         /\ result[1].mappings[i].relevance_score = mappings[i].relevance_score
         /\ result[1].mappings[i].hotspot_text = mappings[i].hotspot[1].text
         /\ result[1].mappings[i].hotspot_type = mappings[i].hotspot[1].type
         /\ result[1].mappings[i].step_index = i - 1
         /\ ~result[1].mappings[i].image_found
         /\ result[1].mappings[i].highlighted_image = None
         /\ "error" \notin DOMAIN result[1].mappings[i]
  /\ (pc = "return" /\ call.fn = "process_simulation_with_vision") =>
       Len(ret[1].mappings) = Len(call.steps)

\* a Report whose first entry is of an image that was not found and whose
\* second entry is of an image that was found and highlighted
C11_Witness ==
  /\ pc = "return"
  /\ call.fn = "process_simulation_with_vision"
  /\ Len(ret[1].mappings) = 2
  /\ 1 \in Resolved
  /\ FilesOf(1).suffixes = {}
  /\ ~ret[1].mappings[1].image_found
  /\ ret[1].mappings[1].relevance_score > 0
  /\ ret[1].mappings[2].image_found
  /\ ret[1].mappings[2].highlighted_image # None

\* the list a call without debug returns from the state (ms, used) on
RECURSIVE mappings_from(_, _, _)
mappings_from(c, ms, used) ==
  IF Len(ms) = Len(c.steps) THEN ms
  ELSE With(select_candidate(candidates_of(scan_order(c.visual_items),
                                           c.steps[Len(ms) + 1], c, used),
                             used, c.max_image_reuse),
            LAMBDA chosen :
              mappings_from(c,
                            Append(ms, best_match_of(Len(ms), c.steps[Len(ms) + 1], chosen)),
                            IF chosen = None THEN used
                            ELSE count_use(used, chosen[1].file_id)))

\* C12 as stated: a call with debug=True completes and returns the list the
\* call with debug=False and the same arguments returns.
C12_DebugTransparent ==
  (call.fn = "map_steps_to_images" /\ call.debug) =>
    /\ pc # "raised"
    /\ pc = "return" => ret[1] = mappings_from(call, <<>>, <<>>)

\* a call with debug=True that has raised at its first step, for arguments with which
\* the call without debug returns a Mapping for every step
C12_Witness ==
  /\ call.fn = "map_steps_to_images"
  /\ call.debug
  /\ pc = "raised"
  /\ mappings = <<>>
  /\ Len(mappings_from(call, <<>>, <<>>)) = Len(call.steps)
  /\ \E i \in 1..Len(call.visual_items) : "fileId" \notin DOMAIN call.visual_items[i]

----------------------------------------------------------------------------
(* Properties of single scores (SpecScore).                                *)

\* the parts of the score of the call
CallParts == score_parts(call.step, call.hotspot, call.request_context)

\* the call for "Click the Submit button" and {name: Submit, type: button}
\* with empty context has returned
SubmitButtonScored ==
  /\ call.fn = "calculate_relevance_score"
  /\ ret # None
  /\ call.step = "Click the Submit button"
  /\ call.hotspot = [name |-> "Submit", type |-> "button"]
  /\ call.request_context = ""

\* C13 as stated: the running total includes the +1.2 exact-target bonus and
\* the +0.35 button/click bonus, and the total before the clamp exceeds 1.5.
C13_TotalAbove ==
  SubmitButtonScored =>
    /\ CallParts.targets = <<1200>>
    /\ CallParts.type = 350
    /\ total_of(CallParts) > 1500

\* C13: the running total includes the +1.2 exact-target bonus, the +0.35
\* button/click bonus and the -0.15 penalty of the generic name "submit", and
\* nothing else; the total before the clamp is 1.4, and 1.4 is returned.
C13_TotalWithPenalty ==
  SubmitButtonScored =>
    /\ CallParts.targets = <<1200>>
    /\ CallParts.type = 350
    /\ CallParts.generic = -150
    /\ CallParts.domain = 0 /\ CallParts.domain_fuzzy = 0
    /\ CallParts.words = 0 /\ CallParts.cross = 0
    /\ total_of(CallParts) = 1400
    /\ ret[1] = 1400

\* the call has returned a score below 1.5
C13_Witness == SubmitButtonScored /\ ret[1] < 1500 /\ ret[1] > 0

\* the call for "Enter your new credit card number" and
\* {name: Card Number Field, type: text_field} with the payment context has
\* returned
CardFieldScored ==
  /\ call.fn = "calculate_relevance_score"
  /\ ret # None
  /\ call.step = "Enter your new credit card number"
  /\ call.hotspot = [name |-> "Card Number Field", type |-> "text_field"]
  /\ call.request_context = "update my payment method"

\* C14: the score with context "update my payment method" is strictly higher
\* than the score of the same step and hotspot with empty context: payment is
\* a domain keyword, its synonym group contains card, and card is a substring
\* of the hotspot text, which adds 0.5.
C14_ContextRaisesScore ==
  CardFieldScored =>
    /\ ret[1] > ScoreTable[call.step, call.hotspot, ""]
    /\ <<"p","a","y","m","e","n","t">>
         \in ToSet(domain_keywords(lower(chars(call.request_context))))
    /\ <<"c","a","r","d">>
         \in expand_keywords_with_synonyms(
               domain_keywords(lower(chars(call.request_context))))
    /\ <<"c","a","r","d">>
         \notin ToSet(domain_keywords(lower(chars(call.request_context))))
    /\ contains(lower(chars(call.hotspot.name)), <<"c","a","r","d">>)
    /\ CallParts.domain = 500
    /\ ret[1] = ScoreTable[call.step, call.hotspot, ""] + 500

\* the call has returned 1.15, the score without context being 0.65
C14_Witness ==
  /\ CardFieldScored
  /\ ret[1] = 1150
  /\ ScoreTable[call.step, call.hotspot, ""] = 650

----------------------------------------------------------------------------
(* Partial records (SpecNormalize).                                        *)

\* a normalize_hotspot call that has returned, for a record that is not in
\* the standard format
ReturnedConverted ==
  /\ call.fn = "normalize_hotspot"
  /\ ret # None
  /\ ~("text" \in DOMAIN call.hotspot /\ "coordinates" \in DOMAIN call.hotspot)

\* the text and the type of the result are those of the record, with the
\* empty str for a missing name and a missing type, and the record can be
\* scored
DefaultsApply ==
  /\ ReturnedConverted =>
       /\ DOMAIN ret[1] = {"text", "type", "coordinates"}
       /\ "name" \notin DOMAIN call.hotspot => ret[1].text = ""
       /\ "name" \in DOMAIN call.hotspot => ret[1].text = call.hotspot.name
       /\ "type" \notin DOMAIN call.hotspot => ret[1].type = ""
       /\ DOMAIN ret[1].coordinates = {"x", "y", "width", "height"}
  /\ (call.fn = "normalize_hotspot" /\ ret # None) =>
       calculate_relevance_score(StepTexts[1], call.hotspot, RequestContexts[2])
         \in 0..(2 * ScoreScale)

----------------------------------------------------------------------------
(* Report aggregation (SpecProcess).                                       *)

\* the Report of a process_simulation_with_vision call has been returned
ReportReturned == call.fn = "process_simulation_with_vision" /\ pc = "return"

\* the steps for which map_steps_to_images produced a match
MatchedSteps == {i \in 1..Len(mappings) :
                   mappings[i].file_id # None /\ mappings[i].hotspot # None}

\* the entries of the Report with a file_id
ReportedSteps == {i \in 1..Len(ret[1].mappings) : ret[1].mappings[i].file_id # None}

\* C16: in the Report, total_steps is the number of input steps, mappings
\* holds one entry per input step in input order, and mapped_steps is the
\* number of steps with a non-null match, which is the number of entries
\* with a non-null file_id.
C16_ReportCounts ==
  ReportReturned =>
    /\ ret[1].total_steps = Len(call.steps)
    /\ Len(ret[1].mappings) = Len(call.steps)
    /\ \A i \in 1..Len(call.steps) :
         /\ ret[1].mappings[i].step_index = i - 1
         /\ ret[1].mappings[i].step = call.steps[i]
    /\ ret[1].mapped_steps = Cardinality(MatchedSteps)
    /\ ret[1].mapped_steps = Cardinality(ReportedSteps)

\* a step matched to a hotspot of the item with the empty fileId is not
\* counted and is reported as unmatched
C16_Witness ==
  /\ ReportReturned
  /\ Len(mappings) = 1
  /\ mappings[1].file_id = Some("")
  /\ mappings[1].hotspot # None
  /\ mappings[1].relevance_score > 0
  /\ ret[1].mapped_steps = 0
  /\ ret[1].mappings[1].hotspot_text = "No match found"

----------------------------------------------------------------------------
(* Successive calls (SpecRepeat).                                          *)

\* C17: the reuse counter is local to one call: successive calls of
\* map_steps_to_images with equal arguments return equal results, and within
\* a call the count held for an image is the number of assignments of that
\* call only, so that an earlier call takes nothing from the adjusted score
\* or from the remaining uses of an image.
C17_CounterLocal ==
  call.fn = "map_steps_to_images" =>
    /\ \A i, j \in 1..Len(ret) : ret[i] = ret[j]
    /\ pc = "map_loop" =>
         \A f \in DOMAIN used_images : used_images[f] = ChosenCount(mappings, f)

\* a second call has returned after a first call that chose an image twice
\* under a positive diversity penalty
C17_Witness ==
  /\ call.fn = "map_steps_to_images"
  /\ pc = "return"
  /\ Len(ret) = 2
  /\ ret[2] = ret[1]
  /\ call.diversity_penalty > 0
  /\ \E i \in 1..Len(ret[1]) :
       /\ ret[1][i].hotspot # None
       /\ ChosenCount(ret[1], ret[1][i].file_id) >= 2

----------------------------------------------------------------------------
(* The fallback under the reuse limit (Spec).                              *)

\* the scanned entries that qualify for step and whose image has been used
\* less than max_image_reuse times according to used
UnderCap(step, c, used) ==
  {e \in Qualifying(step, c) : used_count(used, e.file_id) < c.max_image_reuse}

\* the adjusted score of the scanned entry e for step
AdjustedOf(e, step, c, used) ==
  adjusted_score(ScoreTable[step, e.hotspot, c.request_context],
                 used_count(used, e.file_id), c.diversity_penalty)

\* the Mapping m holds the entry e scanned for step
Holds(m, e, step, c) ==
  /\ m.file_id = e.file_id
  /\ m.hotspot = Some(normalize_hotspot(e.hotspot, DefaultImageSize))
  /\ m.relevance_score = ScoreTable[step, e.hotspot, c.request_context]

\* C18: a step is assigned a candidate of the highest adjusted_score among
\* the candidates whose image has been used less than max_image_reuse times,
\* in particular when the candidate of the highest adjusted_score of all is
\* on an image at the limit; the step gets no match only if no candidate at
\* or above the threshold is on an image under the limit.
C18_CapFallback ==
  [][ ( /\ pc = "map_loop"
        /\ Len(mappings') = Len(mappings) + 1 )
      => \E step \in {call.steps[Len(mappings) + 1]} :
           \E under \in {UnderCap(step, call, used_images)} :
             IF under = {}
             THEN mappings'[Len(mappings')].hotspot = None
             ELSE \E e \in under :
                    /\ Holds(mappings'[Len(mappings')], e, step, call)
                    /\ \A o \in under : AdjustedOf(e, step, call, used_images)
                                          >= AdjustedOf(o, step, call, used_images) ]_vars

\* the second of two equal steps went to the second image because the first
\* image, whose candidate comes first among those of the highest adjusted
\* score, had reached the limit of one use
C18_Witness ==
  /\ call.fn = "map_steps_to_images"
  /\ call.visual_items = VisualItemLists[1]
  /\ call.max_image_reuse = 1
  /\ call.diversity_penalty = 0
  /\ Len(mappings) = 2
  /\ call.steps[1] = call.steps[2]
  /\ mappings[1].file_id = Some("imgA")
  /\ mappings[2].file_id = Some("imgB")
  /\ mappings[1].relevance_score = mappings[2].relevance_score
  /\ used_images = (Some("imgA") :> 1) @@ (Some("imgB") :> 1)

----------------------------------------------------------------------------
(* Ties (Spec).                                                            *)

\* the positions in the scan order entries of the entries that qualify for
\* step and whose image is under the limit according to used
UnderCapAt(entries, step, c, used) ==
  {k \in 1..Len(entries) :
     /\ ~AudioTyped(entries[k].hotspot)
     /\ ScoreTable[step, entries[k].hotspot, c.request_context] >= c.threshold
     /\ used_count(used, entries[k].file_id) < c.max_image_reuse}

\* the positions of at whose entries have the highest adjusted score of at
BestAt(at, entries, step, c, used) ==
  {k \in at : \A o \in at : AdjustedOf(entries[k], step, c, used)
                              >= AdjustedOf(entries[o], step, c, used)}

\* C19: among the candidates that share the highest adjusted_score, the one
\* scanned first (visual items in input order, hotspots in listed order) is
\* chosen, in the direct selection and in the fallback under the reuse
\* limit; the choice is determined by the arguments and the input order.
C19_FirstOfTies ==
  [][ ( /\ pc = "map_loop"
        /\ Len(mappings') = Len(mappings) + 1 )
      => \E step \in {call.steps[Len(mappings) + 1]} :
           \E entries \in {scan_order(call.visual_items)} :
             \E best \in {BestAt(UnderCapAt(entries, step, call, used_images),
                                 entries, step, call, used_images)} :
               best # {} =>
                 \E first \in best :
                   /\ \A k \in best : first <= k
                   /\ Holds(mappings'[Len(mappings')], entries[first], step, call) ]_vars

\* three images hold the same hotspot: the first step takes the first image
\* (direct selection among three equal candidates); the second, equal step
\* finds the first image at the limit and takes the second image, not the
\* third (fallback among two equal candidates)
C19_Witness ==
  /\ call.fn = "map_steps_to_images"
  /\ call.visual_items = VisualItemLists[4]
  /\ call.max_image_reuse = 1
  /\ call.diversity_penalty = 0
  /\ Len(mappings) = 2
  /\ call.steps[1] = StepTexts[3]
  /\ call.steps[2] = StepTexts[3]
  /\ mappings[1].file_id = Some("imgA")
  /\ mappings[2].file_id = Some("imgB")
  /\ mappings[1].hotspot = mappings[2].hotspot
  /\ Cardinality(BestAt(UnderCapAt(scan_order(call.visual_items), StepTexts[3], call, <<>>),
                        scan_order(call.visual_items), StepTexts[3], call, <<>>)) = 3

----------------------------------------------------------------------------
(* The reuse counter within one call (Spec).                               *)

\* the fileId values of the visual items of the call, None for an item
\* without fileId
FileIds == {file_id_of(call.visual_items[k]) : k \in 1..Len(call.visual_items)}

\* C20: when a step is scanned, the count held for each fileId is the number
\* of earlier steps whose Mapping chose it; an assignment adds exactly 1 to
\* the count of the chosen image and changes no other count, a step without
\* match changes no count, and no count decreases or is reset between the
\* steps of a call.
C20_CounterInvariant ==
  /\ [](call.fn = "map_steps_to_images" =>
          /\ DOMAIN used_images \subseteq FileIds
          /\ \A f \in FileIds : used_count(used_images, f) = ChosenCount(mappings, f))
  /\ [][ ( /\ pc = "map_loop"
           /\ Len(mappings') = Len(mappings) + 1 )
         => \E m \in {mappings'[Len(mappings')]} :
              \A f \in FileIds :
                used_count(used_images', f) =
                  IF m.hotspot # None /\ m.file_id = f
                  THEN used_count(used_images, f) + 1
                  ELSE used_count(used_images, f) ]_vars

\* three steps have been mapped: two were assigned the same image and one
\* got no match
C20_Witness ==
  /\ call.fn = "map_steps_to_images"
  /\ pc = "map_loop"
  /\ Len(mappings) = 3
  /\ used_images = (Some("imgA") :> 2)
  /\ mappings[1].file_id = Some("imgA")
  /\ mappings[2].hotspot = None
  /\ mappings[3].file_id = Some("imgA")

----------------------------------------------------------------------------
(* Raw and adjusted scores (Spec).                                         *)

\* the candidates of the step about to be scanned
NextCandidates ==
  candidates_of(scan_order(call.visual_items), call.steps[Len(mappings) + 1],
                call, used_images)

\* C21: the candidates of a step are the scanned hotspots whose raw score is
\* >= threshold, whatever the reuse count of their image; each is ranked by
\* adjusted_score = score - reuse_count * diversity_penalty; a matched
\* Mapping records the raw score, so threshold <= relevance_score <= 2.0.
C21_RawScoreRecorded ==
  call.fn = "map_steps_to_images" =>
    /\ (pc = "map_loop" /\ Len(mappings) < Len(call.steps)) =>
         \E candidates \in {NextCandidates} :
           /\ {<<candidates[k].file_id, candidates[k].score>> : k \in 1..Len(candidates)}
                = {<<e.file_id, ScoreTable[call.steps[Len(mappings) + 1], e.hotspot,
                                           call.request_context]>> :
                     e \in Qualifying(call.steps[Len(mappings) + 1], call)}
           /\ \A k \in 1..Len(candidates) :
                /\ candidates[k].score >= call.threshold
                /\ candidates[k].adjusted_score =
                     candidates[k].score
                       - ChosenCount(mappings, candidates[k].file_id) * call.diversity_penalty
    /\ \A i \in 1..Len(mappings) :
         mappings[i].hotspot # None =>
           /\ mappings[i].relevance_score >= call.threshold
           /\ mappings[i].relevance_score <= 2 * ScoreScale
           /\ \E e \in Qualifying(call.steps[i], call) :
                Holds(mappings[i], e, call.steps[i], call)

\* the second step was assigned a hotspot of an image already used once: its
\* adjusted score 2.0 - 0.9 is below the threshold 1.5, the score recorded
\* is 2.0
C21_Witness ==
  /\ call.fn = "map_steps_to_images"
  /\ call.threshold = 1500
  /\ call.diversity_penalty = 900
  /\ Len(mappings) = 2
  /\ mappings[1].file_id = Some("imgA")
  /\ mappings[2].file_id = Some("imgA")
  /\ mappings[2].hotspot # None
  /\ mappings[2].relevance_score = 2 * ScoreScale
  /\ adjusted_score(mappings[2].relevance_score, 1, call.diversity_penalty) < call.threshold

----------------------------------------------------------------------------
(* The bonuses of the words (SpecScore).                                   *)

\* a calculate_relevance_score call that has returned
Scored == call.fn = "calculate_relevance_score" /\ ret # None

\* the words of the step of the call, without the stop words
CallStepWords == text_words(lower(chars(call.step)))

\* the words of the text of the normalized hotspot of the call, without the
\* stop words
CallHotspotWords ==
  text_words(lower(chars(get(normalize_hotspot(call.hotspot, DefaultImageSize),
                             "text", ""))))

\* the words the step and the hotspot share
CallCommonWords == CallStepWords \cap CallHotspotWords

\* C22 as stated: the bonus of the shared words is 0.15 for each shared word
\* of length > 4 that is no generic term; a shared word of length 4 or less
\* adds nothing.
C22_WordsLongerThan4 ==
  Scored =>
    CallParts.words = 150 * Cardinality({w \in CallCommonWords :
                                           Len(w) > 4 /\ w \notin generic_terms})

\* C22: the bonus of the shared words is 0.15 for each shared word of length
\* > 3 that is no generic term; a shared word of length 3 or less adds
\* nothing.
C22_WordsLongerThan3 ==
  Scored =>
    CallParts.words = 150 * Cardinality({w \in CallCommonWords :
                                           Len(w) > 3 /\ w \notin generic_terms})

\* the step and the hotspot share "card", of length 4, and "number": the
\* bonus is 0.30
C22_Witness ==
  /\ Scored
  /\ call.step = "Enter your new credit card number"
  /\ call.hotspot = [name |-> "Card Number Field", type |-> "text_field"]
  /\ CallCommonWords = {<<"c","a","r","d">>, <<"n","u","m","b","e","r">>}
  /\ CallParts.words = 300

----------------------------------------------------------------------------
(* The synonyms (SpecExpand).                                              *)

\* an expand_keywords_with_synonyms call that has returned
Expanded == call.fn = "expand_keywords_with_synonyms" /\ ret # None

\* the groups whose synonym list contains the lowercase form of keyword
GroupsOf(keyword) ==
  {i \in 1..Len(element_synonyms) :
     lower(keyword) \in ToSet(element_synonyms[i].synonyms)}

\* C23 as stated: the result holds every input keyword and, for every input
\* keyword, the synonym list of every group that lists its lowercase form,
\* also for a keyword listed in more than one group; nothing else.
C23_EveryGroup ==
  Expanded =>
    ret[1] = ToSet(call.keywords)
               \cup UNION {ToSet(element_synonyms[i].synonyms) :
                             i \in UNION {GroupsOf(call.keywords[n]) :
                                            n \in 1..Len(call.keywords)}}

\* C23: the result holds every input keyword and, for every input keyword,
\* the synonym list of the first group, in the order of the table, that
\* lists its lowercase form; nothing else.
C23_FirstGroup ==
  Expanded =>
    ret[1] = ToSet(call.keywords)
               \cup UNION {ToSet(element_synonyms[i].synonyms) :
                             i \in {i \in 1..Len(element_synonyms) :
                                      \E n \in 1..Len(call.keywords) :
                                        /\ i \in GroupsOf(call.keywords[n])
                                        /\ \A j \in GroupsOf(call.keywords[n]) : i <= j}}

\* transaction is listed under payment and under order: the result holds the
\* payment list and none of the other words of the order list
C23_Witness ==
  /\ Expanded
  /\ call.keywords = << <<"t","r","a","n","s","a","c","t","i","o","n">> >>
  /\ GroupsOf(call.keywords[1]) = {1, 2}
  /\ ret[1] = ToSet(element_synonyms[1].synonyms)
  /\ <<"b","o","o","k","i","n","g">> \notin ret[1]


\* C24: the cross-word fuzzy bonus is added only if the step and the hotspot
\* share no word and both have words; the bonus of the shared words and the
\* cross-word fuzzy bonus are never both added to one score.
C24_CrossOnlyWithoutCommon ==
  Scored =>
    \E parts \in {CallParts} :
      /\ parts.cross # 0 =>
           /\ CallCommonWords = {}
           /\ CallStepWords # {}
           /\ CallHotspotWords # {}
      /\ ~(parts.words # 0 /\ parts.cross # 0)

\* "Open 'Order History' in the Menu" and "Orders History" share no word
\* (the quotes stay on the words of the step) and have close words: the
\* cross-word bonus is added, the bonus of the shared words is not
C24_Witness ==
  /\ Scored
  /\ call.step = "Open 'Order History' in the Menu"
  /\ "name" \in DOMAIN call.hotspot
  /\ call.hotspot.name = "Orders History"
  /\ CallCommonWords = {}
  /\ CallParts.cross > 0
  /\ CallParts.words = 0

----------------------------------------------------------------------------
(* The pixel coordinates (SpecNormalize).                                  *)

\* the integer part of n thousandths: trunc(n / 1000)
TruncOf(n) ==
  CHOOSE q \in -2000..2000 :
    /\ (n >= 0 => q >= 0) /\ (n <= 0 => q <= 0)
    /\ (IF q < 0 THEN -q ELSE q) * FracScale <= (IF n < 0 THEN -n ELSE n)
    /\ (IF n < 0 THEN -n ELSE n) < ((IF q < 0 THEN -q ELSE q) + 1) * FracScale

\* the fraction the settings of the call hold under key, or the default
FractionOf(key, default) ==
  IF key \in DOMAIN call.hotspot.settings.items
  THEN call.hotspot.settings.items[key]
  ELSE default

\* a record in the alternate format whose settings is a mapping has been
\* normalized
ReturnedFromMapping ==
  /\ ReturnedConverted
  /\ "settings" \in DOMAIN call.hotspot
  /\ call.hotspot.settings.py_type = "dict"

\* C25: for a record in the alternate format whose settings is a mapping,
\* x = trunc(positionX * image width), y = trunc(positionY * image height),
\* width = trunc(width * image width), height = trunc(height * image height),
\* a missing positionX, positionY, width or height being 0, 0, 0.1 and 0.05.
C25_TruncatedPixels ==
  ReturnedFromMapping =>
    ret[1].coordinates =
      [x      |-> TruncOf(FractionOf("positionX", 0) * call.image_size[1]),
       y      |-> TruncOf(FractionOf("positionY", 0) * call.image_size[2]),
       width  |-> TruncOf(FractionOf("width", 100) * call.image_size[1]),
       height |-> TruncOf(FractionOf("height", 50) * call.image_size[2])]

\* positionX = -0.001 and positionY = -0.25 on a 640x480 image give x = 0
\* (from -0.64) and y = -120; the missing width and height give 64 and 24
C25_Witness ==
  /\ ReturnedFromMapping
  /\ call.image_size = <<640, 480>>
  /\ call.hotspot.settings.items = [positionX |-> -1, positionY |-> -250]
  /\ ret[1].coordinates = [x |-> 0, y |-> -120, width |-> 64, height |-> 24]

----------------------------------------------------------------------------
(* The highlighted box (SpecProcess).                                      *)

\* the box highlight_hotspot_on_image draws for coordinates coords
BoxOf(coords) ==
  << coords.x - 5, coords.y - 5,
     coords.x + coords.width + 5, coords.y + coords.height + 5 >>

\* the scanned entry e is in the alternate format with a settings mapping
FractionalSettings(e) ==
  /\ ~("text" \in DOMAIN e.hotspot /\ "coordinates" \in DOMAIN e.hotspot)
  /\ "settings" \in DOMAIN e.hotspot
  /\ e.hotspot.settings.py_type = "dict"

\* the entry i of the Report holds a highlighted image
Highlighted(i) ==
  /\ "highlighted_image" \in DOMAIN ret[1].mappings[i]
  /\ ret[1].mappings[i].highlighted_image # None

\* C26: for a matched hotspot in the alternate format with fractional
\* settings, the box highlighted on the image is the fractional position and
\* size multiplied by the dimensions of the opened image file, not by the
\* default 1200x800.
C26_BoxScaledToImage ==
  ReportReturned =>
    \A i \in 1..Len(ret[1].mappings) :
      Highlighted(i) =>
        \A e \in Qualifying(call.steps[i], call) :
          (Holds(mappings[i], e, call.steps[i], call) /\ FractionalSettings(e)) =>
            ret[1].mappings[i].highlighted_image[1].box
              = BoxOf(settings_coordinates(e.hotspot.settings, DiskImageSize))

\* the hotspot 'Payment Method' with positionX = 0.5 has been highlighted on
\* a 640x480 image with the box of a 1200x800 image: x = 600, width = 120,
\* height = 40
C26_Witness ==
  /\ ReportReturned
  /\ DiskImageSize = <<640, 480>>
  /\ \E i \in 1..Len(ret[1].mappings) :
       /\ Highlighted(i)
       /\ ret[1].mappings[i].hotspot_text = "Payment Method"
       /\ ret[1].mappings[i].highlighted_image[1].box = <<595, -5, 725, 45>>

----------------------------------------------------------------------------
(* Hotspots without label (SpecScore).                                     *)

\* the text of the normalized hotspot of the call is the empty str
Unlabelled ==
  get(normalize_hotspot(call.hotspot, DefaultImageSize), "text", "") = ""

\* C27: a hotspot whose text label is empty gets no target-matching bonus
\* from any step: each target of the step adds 0.
C27_NoTargetBonusWithoutLabel ==
  (Scored /\ Unlabelled) =>
    \E parts \in {CallParts} :
      \A n \in 1..Len(parts.targets) : parts.targets[n] = 0

\* the hotspot {type: button} has no label; the target Submit of the step
\* "Click the Submit button" earns it the substring bonus 0.7, and with the
\* type bonus the score is 1.05
C27_Witness ==
  /\ Scored
  /\ Unlabelled
  /\ call.step = "Click the Submit button"
  /\ call.hotspot = [type |-> "button"]
  /\ call.request_context = ""
  /\ CallParts.targets = <<700>>
  /\ ret[1] = 1050

----------------------------------------------------------------------------
(* Prefixes of the step list (Spec).                                       *)

\* the list a call with the arguments of the call and only the first n steps
\* returns
ReturnedForPrefix(n) ==
  mappings_from([call EXCEPT !.steps = SubSeq(call.steps, 1, n)], <<>>, <<>>)

\* C28: the Mappings returned for the first n steps of a list are the first
\* n Mappings returned for the whole list, for every n; the Mappings built
\* when n steps have been scanned are those of the call with the first n
\* steps, whatever the later steps are.
C28_PrefixProperty ==
  call.fn = "map_steps_to_images" =>
    /\ pc = "map_loop" => mappings = ReturnedForPrefix(Len(mappings))
    /\ pc = "return" =>
         \A n \in 0..Len(call.steps) : SubSeq(ret[1], 1, n) = ReturnedForPrefix(n)

\* a call with three steps has returned; the first image was at the limit
\* for the third step, and the list of the first two steps is a proper
\* prefix with a match
C28_Witness ==
  /\ call.fn = "map_steps_to_images"
  /\ pc = "return"
  /\ Len(call.steps) = 3
  /\ call.max_image_reuse = 1
  /\ ret[1][1].hotspot # None
  /\ ret[1][2].hotspot # None
  /\ ret[1][1].file_id # ret[1][2].file_id
  /\ ret[1][3].hotspot = None
  /\ SubSeq(ret[1], 1, 2) = ReturnedForPrefix(2)

----------------------------------------------------------------------------
(* file_id and hotspot of a Mapping (Spec).                                *)

\* C29: in every Mapping returned by map_steps_to_images, file_id is None if
\* and only if hotspot is None, also for visual items without fileId.
C29_FileIdIffHotspot ==
  (call.fn = "map_steps_to_images" /\ pc = "return") =>
    \A i \in 1..Len(ret[1]) :
      (ret[1][i].file_id = None) <=> (ret[1][i].hotspot = None)

\* a step has been returned with a hotspot of the visual item without
\* fileId: file_id is None, hotspot and relevance_score are set
C29_Witness ==
  /\ call.fn = "map_steps_to_images"
  /\ pc = "return"
  /\ call.visual_items = VisualItemLists[3]
  /\ "fileId" \notin DOMAIN call.visual_items[1]
  /\ Len(ret[1]) >= 1
  /\ ret[1][1].file_id = None
  /\ ret[1][1].hotspot # None
  /\ ret[1][1].relevance_score >= call.threshold
  /\ used_count(used_images, None) = 1

----------------------------------------------------------------------------
(* The text report (SpecReport).                                           *)

\* the text written holds one entry for each entry of the Report, with the
\* type N/A for an entry without hotspot_type
EntriesReported ==
  pc = "reported" =>
    /\ Len(ret[2].entries) = Len(ret[1].mappings)
    /\ \A i \in 1..Len(ret[2].entries) :
         "hotspot_type" \notin DOMAIN ret[1].mappings[i]
           => ret[2].entries[i].type = "N/A"

\* C30: create_mapping_report returns the text without raising for every
\* Report process_simulation_with_vision produces, also for the Report of an
\* empty step list and for entries without hotspot_type.
C30_ReportNeverRaises ==
  call.fn = "process_simulation_with_vision" =>
    /\ pc # "raised"
    /\ EntriesReported

\* create_mapping_report has raised on the Report of an empty step list
C30_Witness ==
  /\ call.fn = "process_simulation_with_vision"
  /\ call.steps = <<>>
  /\ ret # None
  /\ ret[1] = [total_steps |-> 0, mapped_steps |-> 0, mappings |-> <<>>]
  /\ pc = "raised"

\* the text of a Report with an unmatched entry has been written
ReportedUnmatched ==
  /\ call.fn = "process_simulation_with_vision"
  /\ pc = "reported"
  /\ \E i \in 1..Len(ret[2].entries) :
       /\ "hotspot_type" \notin DOMAIN ret[1].mappings[i]
       /\ ret[2].entries[i].type = "N/A"
       /\ ret[2].entries[i].hotspot = "No match found"

====
